---- MODULE Spec2Model ----
(***************************************************************************)
(* State-machine model of the sanctioned-autonomy control plane:           *)
(* plan objects (overlord_metaplanner.py), the approval workflow           *)
(* (overlord_approver.py), the safe applier (overlord_executor.py), the    *)
(* outcome verifier (overlord_verifier.py) and the feedback loop           *)
(* (overlord_feedback_loop.py), the baseline collector and risk sentinel   *)
(* (overlord_sentinel.py) and the controller (overlord_controller.py).     *)
(*                                                                         *)
(* Conventions.                                                            *)
(*  - Time is counted in units of 1800 s (the shortest TTL of the code);   *)
(*    datetime.now() is the variable now, advanced by Tick only.           *)
(*  - A Python str that the code concatenates or searches is a sequence of *)
(*    tokens; "|" is the token of the separator character.                 *)
(*  - hashlib.sha256 is taken to be collision free: a checksum is the      *)
(*    text that is hashed.                                                 *)
(*  - A float is a fraction [n, d] (d > 0) or, for configuration values,   *)
(*    the value times 100.                                                 *)
(*  - A Python object is an index into the sequence of its class (plans,   *)
(*    approvals); 0 stands for None.                                       *)
(***************************************************************************)
EXTENDS Integers, Sequences, FiniteSets, TLC

VARIABLES
    now,              \* datetime.now(), in units of 1800 s
    plans,            \* every ChangePlan object constructed so far
    nmut,             \* number of attribute assignments made to plans from outside
    approvals,        \* every ApprovedChangePlan object returned by approve
    approved_plans,   \* ApprovalRegistry.approved_plans, as indices into approvals
    request_files,    \* ids with a request_<id>.json in the approval directory
    approval_files,   \* approval_<id>.json: id -> persisted approval record
    rejection_files,  \* ids with a rejection_<id>.json
    config,           \* content of config/parameters.json
    backups,          \* backup files: <<plan_id, timestamp>> -> copied content
    verification,     \* the dict ExecutionVerifier.verify_execution returned last
    feedbacks,        \* FeedbackRegistry.feedbacks
    enrichments,      \* records written to .baseline/enrichments
    current_session,  \* BaselineCollector.current_session
    baseline_file,    \* sessions list of .baseline/metrics.json
    baseline_readable, \* whether .baseline/metrics.json still parses as JSON
    active_signals,   \* OverlordController.active_signals
    execution_controls, \* OverlordController.execution_controls
    sentinel_signals, \* RiskSentinel.signals
    decision_log,     \* OverlordController.decision_log
    plan_registry,    \* PlanRegistry.plans of the controller, as indices into plans
    last              \* the last operation called and what it returned

\* the feedback loop's and the controller's variables
lvars == <<verification, feedbacks, enrichments, current_session>>
cvars == <<baseline_file, baseline_readable, sentinel_signals, active_signals,
          execution_controls, decision_log, plan_registry>>

vars == <<now, plans, nmut, approvals, approved_plans, request_files, approval_files,
          rejection_files, config, backups, lvars, cvars, last>>

-----------------------------------------------------------------------------
(* Bounds of the model *)

MaxTime == 4
MaxPlans == 1
MaxApprovals == 1
MaxMutations == 2
MaxFeedbacks == 1
MaxSessions == 1
MaxLog == 3
MaxReapprovals == 2
MaxPassedLog == 5

-----------------------------------------------------------------------------
(* overlord_metaplanner.py: ChangePlan *)

Scopes == {"parameter", "logic", "architecture"}
Risks == {"safe", "review", "forbidden"}

\* a _classify_risk that rates every scope SAFE
ClassifyAllSafe(scope) == "safe"

\* ChangePlan._classify_risk
_classify_risk(scope) ==
    IF scope = "parameter" THEN "safe"
    ELSE IF scope = "logic" THEN "review"
    ELSE "forbidden"

\* ChangePlan.__init__; id is the random identifier drawn by the constructor
ChangePlan(id, description, scope, justification, expected_gain, affected_parameters) ==
    [ id |-> id,
      created_at |-> now,
      description |-> description,
      scope |-> scope,
      risk_level |-> _classify_risk(scope),
      justification |-> justification,
      metrics_evidence |-> "{}",
      expected_gain |-> expected_gain,
      affected_parameters |-> affected_parameters,
      status |-> "proposed" ]

-----------------------------------------------------------------------------
(* overlord_approver.py: ApprovedChangePlan *)

\* str(list) of a list of parameter names
ListRepr(l) == <<"[">> \o l \o <<"]">>

\* ApprovedChangePlan._calculate_checksum: the text that is hashed
_calculate_checksum(plan) ==
    plan.id \o <<"|">> \o plan.description \o <<"|">> \o <<plan.scope>> \o <<"|">>
        \o ListRepr(plan.affected_parameters) \o <<"|">> \o <<ToString(plan.created_at)>>

\* ApprovedChangePlan.__init__ after its two checks passed; snap is the plan as
\* it was when the approval was constructed (history, not read by the code)
ApprovedChangePlan(p, ttl_hours) ==
    [ plan |-> p,
      plan_id |-> plans[p].id,
      approved_by |-> "human",
      expires_at |-> now + 2 * ttl_hours,
      checksum |-> _calculate_checksum(plans[p]),
      status |-> "approved",
      snap |-> plans[p] ]

\* the ValueError checks at the head of ApprovedChangePlan.__init__
ConstructionFails(plan) ==
    plan.risk_level # "safe" \/ plan.scope # "parameter"

\* an is_valid that never marks an approval expired
StatusKept(ap) == ap.status

\* an is_valid that marks an approval revoked when its TTL has passed
StatusRevokedOnExpiry(ap) ==
    IF ap.status = "approved" /\ now > ap.expires_at THEN "revoked" ELSE ap.status

\* an is_valid without the TTL check
ValidWhileApproved(ap) == ap.status = "approved"

\* an is_valid that accepts an approval already applied
ValidWhenApplied(ap) == ap.status \in {"approved", "applied"} /\ now <= ap.expires_at

\* ApprovedChangePlan.is_valid: the status the call leaves behind
StatusAfterIsValid(ap) ==
    IF ap.status # "approved" THEN ap.status
    ELSE IF now > ap.expires_at THEN "expired"
    ELSE ap.status

\* ApprovedChangePlan.is_valid: the value returned
is_valid(ap) ==
    IF ap.status # "approved" THEN FALSE
    ELSE IF now > ap.expires_at THEN FALSE
    ELSE TRUE

\* a verify_integrity that compares the plan id only
IntegrityOfIdOnly(ap) ==
    plans[ap.plan].id = ap.snap.id

\* ApprovedChangePlan.verify_integrity
verify_integrity(ap) ==
    _calculate_checksum(plans[ap.plan]) = ap.checksum

\* ApprovalRegistry.get_valid_approvals: the list returned
get_valid_approvals ==
    SelectSeq(approved_plans,
              LAMBDA a : is_valid(approvals[a]) /\ verify_integrity(approvals[a]))

\* ApprovedChangePlan.to_dict, the fields persisted by approve
ApprovalRecord(ap) ==
    [ status |-> ap.status, expires_at |-> ap.expires_at, checksum |-> ap.checksum ]

-----------------------------------------------------------------------------
(* overlord_executor.py *)

\* ParameterWhitelist.ALLOWED_PARAMETERS (float bounds times 100)
ALLOWED_PARAMETERS ==
    [ confidence_threshold |-> [type |-> "float", min |-> 60, max |-> 90],
      max_predictions |-> [type |-> "int", min |-> 5, max |-> 200],
      ttl_short |-> [type |-> "int", min |-> 1800, max |-> 3600],
      ttl_medium |-> [type |-> "int", min |-> 3600, max |-> 7200],
      ttl_long |-> [type |-> "int", min |-> 7200, max |-> 14400],
      api_retry_count |-> [type |-> "int", min |-> 1, max |-> 5],
      api_timeout_ms |-> [type |-> "int", min |-> 5000, max |-> 30000],
      ui_fallback_threshold |-> [type |-> "int", min |-> 3, max |-> 10] ]

ParamNames == DOMAIN ALLOWED_PARAMETERS

\* a Python value: its type and its number (a float is the value times 100)
PyFloat(v) == [v |-> v, t |-> "float"]
PyInt(v) == [v |-> v, t |-> "int"]
PyNone == [v |-> 0, t |-> "NoneType"]

\* isinstance(value, expected_type): bool is a subclass of int
isinstance(value, expected_type) ==
    \/ value.t = expected_type
    \/ expected_type = "int" /\ value.t = "bool"

\* a validate without the range checks
ValidateTypeOnly(parameter_name, value) ==
    /\ parameter_name \in ParamNames
    /\ isinstance(value, ALLOWED_PARAMETERS[parameter_name].type)

\* ConfigValidator.validate: TRUE iff it returns (True, None)
validate(parameter_name, value) ==
    IF parameter_name \notin ParamNames THEN FALSE
    ELSE LET spec == ALLOWED_PARAMETERS[parameter_name] IN
         IF ~isinstance(value, spec.type) THEN FALSE
         ELSE IF value.v < spec.min THEN FALSE
         ELSE IF value.v > spec.max THEN FALSE
         ELSE TRUE

\* ConfigValidator.validate_batch: the names whose validation failed
BatchErrors(parameters) ==
    {n \in DOMAIN parameters : ~validate(n, parameters[n])}

\* ConfigValidator.validate_batch: all_valid
validate_batch(parameters) == BatchErrors(parameters) = {}

\* the dict literal of SafeExecutor._init_config_if_missing
DefaultParameters ==
    [ confidence_threshold |-> PyFloat(70),
      max_predictions |-> PyInt(20),
      ttl_short |-> PyInt(1800),
      ttl_medium |-> PyInt(3600),
      ttl_long |-> PyInt(7200),
      api_retry_count |-> PyInt(3),
      api_timeout_ms |-> PyInt(10000),
      ui_fallback_threshold |-> PyInt(5) ]

\* SafeExecutor._init_config_if_missing: the file it writes
DefaultConfig ==
    [ readable |-> TRUE, parameters |-> DefaultParameters, modifications |-> <<>> ]

\* the file after open(config_file, 'w') truncated it and json.dump failed
TruncatedConfig ==
    [ readable |-> FALSE, parameters |-> [n \in {} |-> PyNone], modifications |-> <<>> ]

EmptyDict == [n \in {} |-> PyNone]

\* 'word' in plan.description.lower()
Contains(description, word) == \E i \in DOMAIN description : description[i] = word

\* SafeExecutor._extract_parameters
_extract_parameters(plan) ==
    IF Contains(plan.description, "confidence")
        THEN [n \in {"confidence_threshold"} |-> PyFloat(75)]
    ELSE IF Contains(plan.description, "retry")
        THEN [n \in {"api_retry_count"} |-> PyInt(5)]
    ELSE IF Contains(plan.description, "ttl")
        THEN [n \in {"ttl_medium"} |-> PyInt(4500)]
    ELSE EmptyDict

\* config['parameters'].get(param_name)
DictGet(d, k) == IF k \in DOMAIN d THEN d[k] ELSE PyNone

\* a loop that records the old values and assigns nothing
ApplyNothing(parameters, changes) == parameters

\* a loop that assigns the text of every value
ApplyAsText(parameters, changes) ==
    [n \in DOMAIN parameters \cup DOMAIN changes |->
        IF n \in DOMAIN changes THEN [v |-> changes[n].v, t |-> "str"] ELSE parameters[n]]

\* the loop of SafeExecutor.apply that assigns config['parameters'][name]
ApplyChanges(parameters, changes) ==
    [n \in DOMAIN parameters \cup DOMAIN changes |->
        IF n \in DOMAIN changes THEN changes[n] ELSE parameters[n]]

\* the modification record SafeExecutor.apply appends
Modification(ap, changes, backup_file) ==
    [ plan_id |-> ap.plan_id,
      applied_at |-> now,
      approved_by |-> ap.approved_by,
      changes |-> changes,
      old_values |-> [n \in DOMAIN changes |-> DictGet(config.parameters, n)],
      backup_file |-> backup_file,
      description |-> plans[ap.plan].description ]

\* RollbackManager.create_backup: the name of the backup file
BackupName(plan_id) == <<plan_id, now>>

\* a create_backup that returns the name of the file and copies nothing
BackupNotCopied(plan_id) == backups

\* RollbackManager.create_backup: shutil.copy2(config_file, backup_file)
create_backup(plan_id) ==
    [k \in DOMAIN backups \cup {BackupName(plan_id)} |->
        IF k = BackupName(plan_id) THEN config ELSE backups[k]]


\* a rollback that reports success and copies nothing
RollbackCopiesNothing(backup, damaged, succeeds) == damaged

\* RollbackManager.rollback called by the except branch of SafeExecutor.apply:
\* the configuration file after the attempt (damaged is the file the failure left)
rollback(backup, damaged, succeeds) ==
    IF succeeds THEN backup ELSE damaged

\* the except branch of SafeExecutor.apply: the line it logs after the attempt
RollbackReport(succeeds) ==
    IF succeeds THEN "Rollback successful" ELSE "Rollback failed"

\* SafeExecutor.apply: what the call returns and the files and status it leaves.
\* changes is the dict returned by _extract_parameters; io is the file operation
\* that fails during the call ("ok": none), rb whether the rollback copy succeeds.
ApplyOutcome(a, changes, io, rb) ==
    LET ap == approvals[a]
        pl == plans[ap.plan]
        st == StatusAfterIsValid(ap)
        name == BackupName(ap.plan_id)
        bk == create_backup(ap.plan_id)
        Result(ok, reason, status, cfg, b) ==
            [ok |-> ok, reason |-> reason, status |-> status, config |-> cfg, backups |-> b,
             log |-> IF reason = <<"exception">> THEN RollbackReport(rb) ELSE "None"]
        written ==
            [ readable |-> TRUE,
              parameters |-> ApplyChanges(config.parameters, changes),
              modifications |-> Append(config.modifications, Modification(ap, changes, name)) ]
    IN  IF ~is_valid(ap)
            THEN Result(FALSE, <<"Approval not valid: ", st>>, st, config, backups)
        ELSE IF ~verify_integrity(ap)
            THEN Result(FALSE, <<"Integrity check failed: plan was modified after approval">>,
                        st, config, backups)
        ELSE IF pl.scope # "parameter"
            THEN Result(FALSE, <<"Invalid scope: ", pl.scope>>, st, config, backups)
        ELSE IF pl.risk_level # "safe"
            THEN Result(FALSE, <<"Invalid risk: ", pl.risk_level>>, st, config, backups)
        ELSE IF io = "backup_fail"
            THEN Result(FALSE, <<"Failed to create backup">>, st, config, backups)
        ELSE IF ~config.readable \/ io = "read_fail"
            THEN Result(FALSE, <<"exception">>, st, rollback(bk[name], config, rb), bk)
        ELSE IF DOMAIN changes = {}
            THEN Result(FALSE, <<"No parameters found in plan">>, st, config, bk)
        ELSE IF ~validate_batch(changes)
            THEN Result(FALSE, <<"Validation failed: ">>, st, config, bk)
        ELSE IF io = "write_fail"
            THEN Result(FALSE, <<"exception">>, st, rollback(bk[name], TruncatedConfig, rb), bk)
        ELSE Result(TRUE, <<>>, "applied", written, bk)

-----------------------------------------------------------------------------
(* overlord_verifier.py *)

\* a metric value: a number, or a value that is no number (a str, a nested dict)
Num(v) == [v |-> v, t |-> "int"]
NotANumber == [v |-> 0, t |-> "str"]
NoMetrics == [m \in {} |-> Num(0)]

\* isinstance(value, (int, float))
IsNumber(value) == value.t \in {"int", "float", "bool"}

\* fractions: the exact value of a float computed by the code
RECURSIVE Gcd(_, _)
Gcd(a, b) == IF b = 0 THEN a ELSE Gcd(b, a % b)
Abs(x) == IF x < 0 THEN -x ELSE x
Frac(n, d) ==
    LET g == Gcd(Abs(n), Abs(d)) IN
    IF d < 0 THEN [n |-> (-n) \div g, d |-> (-d) \div g] ELSE [n |-> n \div g, d |-> d \div g]
FracAdd(x, y) == Frac(x.n * y.d + y.n * x.d, x.d * y.d)
FracLess(x, y) == x.n * y.d < y.n * x.d
Zero == Frac(0, 1)

RECURSIVE FracSum(_, _)
FracSum(S, f) ==
    IF S = {} THEN Zero
    ELSE LET m == CHOOSE x \in S : TRUE IN FracAdd(f[m], FracSum(S \ {m}, f))

\* a plan's expected_gain attribute: the text the planner writes, or a dict
\* {metric_name: expected_value} as ExpectedGainValidator.validate documents it
TextGain == [d |-> NoMetrics, kind |-> "str"]
DictGain(d) == [d |-> d, kind |-> "dict"]

\* ExpectedGainValidator.validate, the metrics whose percentage is appended to gains
GainMetrics(expected_gain, actual_metrics) ==
    {m \in DOMAIN expected_gain \cap DOMAIN actual_metrics :
        /\ IsNumber(expected_gain[m]) /\ IsNumber(actual_metrics[m])
        /\ actual_metrics[m].v - expected_gain[m].v >= 0}

\* ExpectedGainValidator.validate, the percentage appended for one metric
GainPercentage(expected_value, actual_value) ==
    LET delta == actual_value - expected_value IN
    IF delta > 0
        THEN (IF expected_value # 0 THEN Frac(delta * 100, expected_value) ELSE Frac(100, 1))
        ELSE Zero

\* ExpectedGainValidator.validate on two dicts
ExpectedGainValidator_validate(expected_gain, actual_metrics) ==
    LET gains == GainMetrics(expected_gain, actual_metrics)
        pct(m) == GainPercentage(expected_gain[m].v, actual_metrics[m].v)
        total == FracSum(gains, [m \in gains |-> pct(m)])
        avg_gain == Frac(total.n, total.d * Cardinality(gains))
        has_positive == \E m \in gains : FracLess(Zero, pct(m))
    IN  IF DOMAIN expected_gain = {} \/ DOMAIN actual_metrics = {}
            THEN [is_valid |-> FALSE, gain_percentage |-> Zero,
                  reasoning |-> "Missing metrics data"]
        ELSE IF gains = {}
            THEN [is_valid |-> FALSE, gain_percentage |-> Zero,
                  reasoning |-> "No valid metrics for comparison"]
        ELSE [is_valid |-> has_positive /\ ~FracLess(avg_gain, Zero),
              gain_percentage |-> avg_gain,
              reasoning |-> "Avg gain"]

\* DriftDetector.detect_drift, drift_pct of one metric
DriftPct(baseline_value, current_value) ==
    IF baseline_value = 0
        THEN (IF current_value # 0 THEN Frac(100, 1) ELSE Zero)
        ELSE Frac(Abs((current_value - baseline_value) * 100), Abs(baseline_value))

\* DriftDetector.tolerance_percent as ExecutionVerifier constructs it
tolerance_percent == 5

\* DriftDetector.detect_drift: the drift report
detect_drift(baseline_metrics, current_metrics) ==
    LET common == {m \in DOMAIN baseline_metrics \cap DOMAIN current_metrics :
                      IsNumber(baseline_metrics[m]) /\ IsNumber(current_metrics[m])}
        pct(m) == DriftPct(baseline_metrics[m].v, current_metrics[m].v)
        critical_drifts == {m \in common : FracLess(Frac(20, 1), pct(m))}
        drifts == {m \in common \ critical_drifts : FracLess(Frac(tolerance_percent, 1), pct(m))}
    IN  IF critical_drifts # {} THEN [has_drift |-> TRUE, drift_level |-> "critical"]
        ELSE IF drifts # {} THEN [has_drift |-> TRUE, drift_level |-> "significant"]
        ELSE [has_drift |-> FALSE, drift_level |-> "none"]

\* None in a field of the verification record
NoGain == [present |-> FALSE, is_valid |-> FALSE, gain_percentage |-> Zero, reasoning |-> ""]
NoDrift == [present |-> FALSE, has_drift |-> FALSE, drift_level |-> "none"]

\* ExecutionVerifier.verify_execution raises: a str has no items()
VerifyRaises(ap, execution_metrics) ==
    LET expected_gain == plans[ap.plan].expected_gain IN
    /\ verify_integrity(ap)
    /\ expected_gain.kind = "str"
    /\ DOMAIN execution_metrics # {}

\* a negative-gain test that tolerates a loss of up to 60 percent
NegativeGainBelowSixty(is_valid_gain, gain_pct) ==
    ~is_valid_gain /\ FracLess(gain_pct, Frac(-60, 1))

\* a negative-gain test that takes every gain that is not valid for a loss
NegativeGainWhenInvalid(is_valid_gain, gain_pct) == ~is_valid_gain

\* ExecutionVerifier.verify_execution: the test of its negative-gain branch
NegativeGain(is_valid_gain, gain_pct) == ~is_valid_gain /\ FracLess(gain_pct, Zero)

\* ExecutionVerifier.verify_execution on an approval whose plan's expected_gain is
\* a dict or whose execution_metrics is empty: the record returned
verify_execution(ap, pre_change_baseline, post_change_baseline, execution_metrics) ==
    LET expected_gain == plans[ap.plan].expected_gain
        integrity_check == verify_integrity(ap)
        g == ExpectedGainValidator_validate(expected_gain.d, execution_metrics)
        gain_pct == g.gain_percentage
        drift == detect_drift(pre_change_baseline, post_change_baseline)
        negative == NegativeGain(g.is_valid, gain_pct)
        status == IF negative THEN "negative"
                  ELSE IF FracLess(Frac(5, 1), gain_pct) THEN "success"
                  ELSE IF FracLess(Zero, gain_pct) THEN "partial"
                  ELSE "no_effect"
        base == [ plan_id |-> ap.plan_id,
                  present |-> TRUE,
                  expected_gain |-> expected_gain,
                  actual_metrics |-> execution_metrics,
                  pre_change_baseline |-> pre_change_baseline,
                  post_change_baseline |-> post_change_baseline,
                  integrity_check |-> integrity_check ]
    IN  IF ~integrity_check
            THEN base @@ [ status |-> "failed",
                           gain_validation |-> NoGain,
                           drift_detection |-> NoDrift,
                           rollback_recommended |-> TRUE,
                           rollback_justification |-> "Plan integrity compromised" ]
        ELSE base @@ [ status |-> status,
                       gain_validation |-> [present |-> TRUE, is_valid |-> g.is_valid,
                                            gain_percentage |-> gain_pct,
                                            reasoning |-> g.reasoning],
                       drift_detection |-> [present |-> TRUE, has_drift |-> drift.has_drift,
                                            drift_level |-> drift.drift_level],
                       rollback_recommended |-> negative \/ drift.drift_level = "critical",
                       rollback_justification |->
                           IF drift.drift_level = "critical" THEN "Critical drift in metrics"
                           ELSE IF negative THEN "Negative gain"
                           ELSE "None" ]

-----------------------------------------------------------------------------
(* overlord_verifier.py: RollbackRecommender *)

\* RollbackRecommender.generate_recommendation raises: verification holds None
\* under 'gain_validation'
RecommendationRaises(v) == ~v.gain_validation.present

\* RollbackRecommender.generate_recommendation: should_rollback and confidence
\* (in hundredths)
generate_recommendation(v) ==
    LET drift_level == v.drift_detection.drift_level
        gain_pct == v.gain_validation.gain_percentage
    IN  IF drift_level = "critical"
            THEN [should_rollback |-> TRUE, confidence |-> 95]
        ELSE IF v.status = "negative" /\ FracLess(gain_pct, Frac(-5, 1))
            THEN [should_rollback |-> TRUE, confidence |-> 75]
        ELSE IF drift_level = "significant"
            THEN [should_rollback |-> FALSE, confidence |-> 50]
        ELSE [should_rollback |-> FALSE, confidence |-> 0]

-----------------------------------------------------------------------------
(* overlord_feedback_loop.py *)

\* PlanOutcome
PlanOutcome ==
    {"success", "partial_success", "no_effect", "negative", "failed", "rolled_back"}

\* CycleOrchestrator._determine_outcome
_determine_outcome(status, rollback_recommended) ==
    IF rollback_recommended THEN "negative"
    ELSE IF status = "success" THEN "success"
    ELSE IF status = "partial" THEN "partial_success"
    ELSE IF status = "no_effect" THEN "no_effect"
    ELSE IF status = "negative" THEN "negative"
    ELSE "failed"

\* VerificationFeedback.__init__ raises: verification holds None under
\* 'gain_validation'
FeedbackRaises(v) == ~v.gain_validation.present

\* VerificationFeedback.__init__
VerificationFeedback(v, outcome) ==
    [ plan_id |-> v.plan_id,
      verification_status |-> v.status,
      outcome |-> outcome,
      gain_pct |-> v.gain_validation.gain_percentage,
      actual_metrics |-> v.actual_metrics,
      post_change_baseline |-> v.post_change_baseline,
      rollback_recommended |-> v.rollback_recommended ]

\* an enrich_baseline that skips rolled-back plans only
EnrichUnlessRolledBack(feedback) == feedback.outcome # "rolled_back"

\* BaselineEnricher.enrich_baseline: its return value
enrich_baseline(feedback) == feedback.outcome \in {"success", "partial_success"}

\* BaselineEnricher.enrich_baseline: the enrichment record
EnrichmentRecord(feedback) ==
    [ plan_id |-> feedback.plan_id,
      outcome |-> feedback.outcome,
      post_change_baseline |-> feedback.post_change_baseline ]

-----------------------------------------------------------------------------
(* overlord_sentinel.py *)

\* BaselineCollector.__init__: current_session (the timestamp left out)
NewSession ==
    [ api_first_score |-> PyNone,
      ui_fallbacks |-> Num(0),
      demo_fallbacks |-> Num(0),
      smoke_duration |-> PyNone,
      run_duration |-> PyNone,
      supabase_success_rate |-> PyNone ]

\* BaselineCollector.record_metric for every item of a dict
RecordMetrics(session, metrics) ==
    [k \in DOMAIN session \cup DOMAIN metrics |->
        IF k \in DOMAIN metrics THEN metrics[k] ELSE session[k]]

\* dict.get(key, default)
Get(d, k, default) == IF k \in DOMAIN d THEN d[k] ELSE default

RECURSIVE SumOf(_, _)
SumOf(s, key) ==
    IF s = <<>> THEN 0
    ELSE (IF Get(s[1], key, PyNone) # PyNone THEN s[1][key].v ELSE 0) + SumOf(Tail(s), key)

RECURSIVE CountOf(_, _)
CountOf(s, key) ==
    IF s = <<>> THEN 0
    ELSE (IF Get(s[1], key, PyNone) # PyNone THEN 1 ELSE 0) + CountOf(Tail(s), key)

\* a get_baseline_summary that returns a summary of an empty session list
SummaryOfNoSessions ==
    [ present |-> TRUE,
      total_sessions |-> Len(baseline_file),
      api_first_score_mean |->
          IF CountOf(baseline_file, "api_first_score") > 0
          THEN Frac(SumOf(baseline_file, "api_first_score"),
                    CountOf(baseline_file, "api_first_score"))
          ELSE Frac(100, 1),
      ui_fallbacks_mean |->
          IF CountOf(baseline_file, "ui_fallbacks") > 0
          THEN Frac(SumOf(baseline_file, "ui_fallbacks"),
                    CountOf(baseline_file, "ui_fallbacks"))
          ELSE Zero ]

\* BaselineCollector.get_baseline_summary: the means, as fractions
get_baseline_summary ==
    [ present |-> baseline_readable /\ baseline_file # <<>>,
      total_sessions |-> Len(baseline_file),
      api_first_score_mean |->
          IF CountOf(baseline_file, "api_first_score") > 0
          THEN Frac(SumOf(baseline_file, "api_first_score"),
                    CountOf(baseline_file, "api_first_score"))
          ELSE Frac(100, 1),
      ui_fallbacks_mean |->
          IF CountOf(baseline_file, "ui_fallbacks") > 0
          THEN Frac(SumOf(baseline_file, "ui_fallbacks"),
                    CountOf(baseline_file, "ui_fallbacks"))
          ELSE Zero ]

\* a risk signal of RiskSentinel
Risk(attractor, level) == [attractor |-> attractor, level |-> level]

\* a threshold of half the mean, whatever the factor
LessThanHalf(x, f, a, b) == x * f.d * 2 < f.n

\* x < f * (a / b) for integer x and fraction f
LessThanScaled(x, f, a, b) == x * f.d * b < f.n * a

\* RiskSentinel.check_risks: the signals, in the order they are appended
check_risks(current_metrics) ==
    LET summary == get_baseline_summary
        current_score == Get(current_metrics, "api_first_score", Num(100)).v
        ui_fallbacks == Get(current_metrics, "ui_fallbacks", Num(0)).v
        demo_fallbacks == Get(current_metrics, "demo_fallbacks", Num(0)).v
        supabase_rate == Get(current_metrics, "supabase_success_rate", Num(100)).v
    IN  IF ~summary.present THEN <<>>
        ELSE (IF LessThanScaled(current_score, summary.api_first_score_mean, 8, 10)
                 THEN <<Risk("api_score_drop", "medium")>> ELSE <<>>)
          \o (IF ui_fallbacks > 5
                 THEN <<Risk("high_ui_fallback", "medium")>> ELSE <<>>)
          \o (IF demo_fallbacks > 0
                 THEN <<Risk("demo_only_mode", "high")>> ELSE <<>>)
          \o (IF supabase_rate < 95
                 THEN <<Risk("supabase_down", "high")>> ELSE <<>>)

\* the keys check_risks reads, in the order of its checks
CheckedKeys == <<"api_first_score", "ui_fallbacks", "demo_fallbacks", "supabase_success_rate">>

\* a comparison of current_metrics[key] with a number raises TypeError
ComparisonRaises(current_metrics, key) ==
    key \in DOMAIN current_metrics /\ ~IsNumber(current_metrics[key])

\* RiskSentinel.check_risks raises: a baseline exists and a value it compares
\* is no number
CheckRisksRaises(current_metrics) ==
    /\ get_baseline_summary.present
    /\ \E i \in DOMAIN CheckedKeys : ComparisonRaises(current_metrics, CheckedKeys[i])

\* RiskSentinel.signals when check_risks has raised: the signals of the checks
\* that came before the comparison that raised
SignalsAtRaise(current_metrics) ==
    LET first == CHOOSE i \in DOMAIN CheckedKeys :
                    /\ ComparisonRaises(current_metrics, CheckedKeys[i])
                    /\ \A j \in 1..(i - 1) : ~ComparisonRaises(current_metrics, CheckedKeys[j])
        before == {CheckedKeys[j] : j \in 1..(first - 1)}
    IN  IF first = 1 THEN <<>>
        ELSE check_risks([k \in DOMAIN current_metrics \cap before |-> current_metrics[k]])

-----------------------------------------------------------------------------
(* overlord_controller.py *)

\* ControlSignal.__init__; ttl in units of 1800 s
ControlSignal(signal_type, attractor, ttl) ==
    [ signal_type |-> signal_type,
      attractor |-> attractor,
      expires_at |-> now + ttl,
      reversible |-> TRUE,
      active |-> TRUE ]

\* an is_expired that is true from expires_at on
ExpiredAtDeadline(signal) == now >= signal.expires_at

\* ControlSignal.is_expired, ControlSignal.is_active
is_expired(signal) == now > signal.expires_at
is_active(signal) == signal.active /\ ~is_expired(signal)

\* ExecutionControls.__init__; confidence_threshold in hundredths, 0 for None
ExecutionControls ==
    [ force_demo_mode |-> FALSE,
      block_live_mode |-> FALSE,
      disable_ui_fallback |-> FALSE,
      confidence_threshold |-> 70,
      max_predictions |-> 0,
      skip_ml_inference |-> FALSE,
      disable_supabase |-> FALSE,
      ci_early_exit |-> FALSE,
      ci_exit_reason |-> "None" ]

\* ExecutionControls.apply_signal
apply_signal(controls, signal) ==
    IF ~is_active(signal) THEN controls
    ELSE IF signal.signal_type = "hard_limit" /\ signal.attractor = "demo_only_mode"
        THEN [controls EXCEPT !.force_demo_mode = TRUE, !.block_live_mode = TRUE]
    ELSE IF signal.signal_type = "mode_downgrade" /\ signal.attractor = "playwright_fail"
        THEN [controls EXCEPT !.disable_ui_fallback = TRUE]
    ELSE IF signal.signal_type = "early_exit" /\ signal.attractor = "runtime_spike"
        THEN [controls EXCEPT
                 !.ci_early_exit = TRUE,
                 !.ci_exit_reason = "Runtime exceeded baseline threshold",
                 !.max_predictions = IF @ = 0 \/ @ > 5 THEN 5 ELSE @]
    ELSE controls

\* OverlordController._generate_control_signals, the signals made for one risk
SignalsFor(risk) ==
    IF risk.level = "high"
        THEN IF risk.attractor = "demo_only_mode"
                 THEN <<ControlSignal("hard_limit", risk.attractor, 4)>>
             ELSE IF risk.attractor = "supabase_down"
                 THEN <<ControlSignal("soft_limit", risk.attractor, 1)>>
             ELSE IF risk.attractor = "playwright_fail"
                 THEN <<ControlSignal("mode_downgrade", risk.attractor, 2)>>
             ELSE <<>>
    ELSE IF risk.level = "medium"
        THEN IF risk.attractor = "api_score_drop"
                 THEN <<ControlSignal("execution_guard", risk.attractor, 1)>>
             ELSE IF risk.attractor = "high_ui_fallback"
                 THEN <<ControlSignal("soft_limit", risk.attractor, 2)>>
             ELSE IF risk.attractor = "runtime_spike"
                 THEN <<ControlSignal("early_exit", risk.attractor, 2)>>
             ELSE <<>>
    ELSE <<ControlSignal("log_only", risk.attractor, 1)>>

\* OverlordController._generate_control_signals
RECURSIVE _generate_control_signals(_)
_generate_control_signals(risk_signals) ==
    IF risk_signals = <<>> THEN <<>>
    ELSE SignalsFor(risk_signals[1]) \o _generate_control_signals(Tail(risk_signals))

\* OverlordController._find_signal: index of the first match, 0 for None
_find_signal(signals, attractor, signal_type) ==
    LET found == {i \in DOMAIN signals :
                     signals[i].attractor = attractor /\ signals[i].signal_type = signal_type}
    IN  IF found = {} THEN 0 ELSE CHOOSE i \in found : \A j \in found : i <= j

\* the controller's state that _apply_signals works on
ControllerState(signals, controls, log) ==
    [active_signals |-> signals, execution_controls |-> controls, decision_log |-> log]

\* OverlordController._apply_signals
RECURSIVE _apply_signals(_, _)
_apply_signals(c, signals) ==
    IF signals = <<>> THEN c
    ELSE LET signal == signals[1]
             existing == _find_signal(c.active_signals, signal.attractor, signal.signal_type)
             next == IF existing # 0 /\ is_active(c.active_signals[existing])
                       THEN [c EXCEPT !.active_signals[existing].expires_at = signal.expires_at]
                       ELSE ControllerState(
                                Append(c.active_signals, signal),
                                apply_signal(c.execution_controls, signal),
                                Append(c.decision_log, "signal_activated"))
         IN _apply_signals(next, Tail(signals))

\* OverlordController._cleanup_expired_signals
_cleanup_expired_signals(c) ==
    LET expired == SelectSeq(c.active_signals, is_expired)
        kept == SelectSeq(c.active_signals, LAMBDA s : ~is_expired(s))
    IN  ControllerState(kept, c.execution_controls,
            c.decision_log \o [i \in 1..Len(expired) |-> "signal_expired"])

\* OverlordController.evaluate_and_apply: the controller's state afterwards
evaluate_and_apply(current_metrics) ==
    _cleanup_expired_signals(
        _apply_signals(
            ControllerState(active_signals, execution_controls, decision_log),
            _generate_control_signals(check_risks(current_metrics))))

-----------------------------------------------------------------------------
(* overlord_metaplanner.py: MetaPlanner *)

\* MetaPlanner._analyze_api_first_trend: a plan is proposed
ApiTrend(summary, current_metrics) ==
    /\ LessThanScaled(Get(current_metrics, "api_first_score", Num(100)).v,
                      summary.api_first_score_mean, 9, 10)
    /\ summary.total_sessions >= 3

\* MetaPlanner._analyze_ui_fallback_pattern: a plan is proposed
UiFallbackPattern(summary, current_metrics) ==
    /\ Get(current_metrics, "ui_fallbacks", Num(0)).v > 3
    /\ FracLess(Frac(2, 1), summary.ui_fallbacks_mean)

\* MetaPlanner._analyze_control_signal_patterns: a plan is proposed
ControlSignalPatterns(log) ==
    /\ Len(log) >= 5
    /\ Cardinality({i \in DOMAIN log : log[i] = "signal_activated"}) >= 3

\* MetaPlanner.analyze_and_plan raises: a baseline exists and a value one of
\* the analyses compares is no number
AnalyzeRaises(current_metrics) ==
    /\ get_baseline_summary.present
    /\ \/ ComparisonRaises(current_metrics, "api_first_score")
       \/ ComparisonRaises(current_metrics, "ui_fallbacks")

\* MetaPlanner.analyze_and_plan: description (its lower-cased words), evidence
\* and affected parameters of the plans proposed, in order
analyze_and_plan(current_metrics, log) ==
    LET summary == get_baseline_summary IN
    IF ~summary.present THEN <<>>
    ELSE (IF ApiTrend(summary, current_metrics)
             THEN <<[description |-> <<"increase", "api", "retry", "attempts">>,
                     expected_gain |-> TextGain,
                     metrics_evidence |-> "{api}",
                     affected_parameters |-> <<"api_retry_count", "api_timeout">>]>>
             ELSE <<>>)
      \o (IF UiFallbackPattern(summary, current_metrics)
             THEN <<[description |-> <<"adjust", "api", "endpoint", "health", "check", "interval">>,
                     expected_gain |-> TextGain,
                     metrics_evidence |-> "{ui}",
                     affected_parameters |-> <<"api_health_check_interval", "fallback_threshold">>]>>
             ELSE <<>>)
      \o (IF ControlSignalPatterns(log)
             THEN <<[description |-> <<"optimize", "control", "signal", "ttl", "durations">>,
                     expected_gain |-> TextGain,
                     metrics_evidence |-> "{signals}",
                     affected_parameters |-> <<"signal_ttl_short", "signal_ttl_medium", "signal_ttl_long">>]>>
             ELSE <<>>)

\* OverlordController.get_active_plans: PlanRegistry.get_plans_by_status('proposed')
get_active_plans == SelectSeq(plan_registry, LAMBDA p : plans[p].status = "proposed")

-----------------------------------------------------------------------------
(* Inputs *)

\* the identifier the constructor draws for the k-th plan (identifiers drawn at
\* random are taken to differ), and the values an id can be set to
PlanId(k) == <<"plan", ToString(k)>>
IdValues == {PlanId(1), PlanId(1) \o <<"|", "x">>}

\* descriptions: the words the applier searches for, and free text
Descriptions ==
    {<<"confidence">>, <<"retry">>, <<"ttl">>, <<"x">>, <<"x", "|", "confidence">>}

Justifications == {"j0", "j1"}
Evidence == {"{}", "{e1}"}
AffectedLists == {<<"api_retry_count">>, <<"confidence_threshold">>}
IOFailures == {"ok", "backup_fail", "read_fail", "write_fail"}

\* ttl_hours arguments of approve
TTLHours == {1}

\* expected_gain attributes of plans and the metrics handed to the verifier
ExpectedGains ==
    { TextGain,
      DictGain(NoMetrics),
      DictGain("api_first_score" :> Num(100)),
      DictGain("net_change" :> Num(-10)),
      DictGain(("api_first_score" :> Num(100)) @@ ("net_change" :> Num(-10))) }
ExecutionMetrics ==
    { NoMetrics,
      "api_first_score" :> Num(90),
      "api_first_score" :> Num(104),
      "api_first_score" :> Num(105),
      "api_first_score" :> Num(106),
      "api_first_score" :> NotANumber,
      "net_change" :> Num(-5),
      ("api_first_score" :> Num(106)) @@ ("net_change" :> Num(-5)) }

\* pre- and post-change baselines handed to the verifier
BaselinePairs ==
    { <<NoMetrics, NoMetrics>>,
      <<"ui_fallbacks" :> Num(2), "ui_fallbacks" :> Num(10)>>,
      <<"ui_fallbacks" :> Num(100), "ui_fallbacks" :> Num(110)>>,
      <<"ui_fallbacks" :> Num(100), "ui_fallbacks" :> Num(104)>> }

\* status values a caller can put into the dict handed to process_cycle
CycleStatuses == {"success", "partial", "no_effect", "negative", "failed", "rolled_back"}

\* current_metrics handed to the controller, metrics recorded by the collector
ControllerMetrics ==
    { NoMetrics,
      "demo_fallbacks" :> Num(1),
      "ui_fallbacks" :> Num(6),
      "api_first_score" :> Num(50),
      ("api_first_score" :> Num(50)) @@ ("ui_fallbacks" :> PyNone) }
RecordedMetrics == {"ui_fallbacks" :> Num(10), "api_first_score" :> Num(100)}

\* the decision logs handed to the planner: the 'action' of each entry, for
\* every log of up to MaxPassedLog entries the controller can have written
RECURSIVE LogsOfLength(_)
LogsOfLength(n) ==
    IF n = 0 THEN {<<>>}
    ELSE {Append(l, a) : l \in LogsOfLength(n - 1), a \in {"signal_activated", "signal_expired"}}
DecisionLogs == UNION {LogsOfLength(n) : n \in 0..MaxPassedLog}

\* RiskAttractor and RiskLevel: the risk signals a sentinel can hand over
RiskAttractor ==
    { "api_score_drop", "high_ui_fallback", "demo_only_mode", "smoke_failures",
      "runtime_spike", "cache_miss_rate", "supabase_down", "ml_load_slow", "playwright_fail" }
RiskLevel == {"low", "medium", "high"}
RiskSignals == {Risk(attractor, level) : attractor \in RiskAttractor, level \in RiskLevel}

\* parameter dicts for the applier's validation
ChangeSets ==
    { [n \in {"confidence_threshold"} |-> PyFloat(75)],
      [n \in {"confidence_threshold"} |-> PyFloat(96)],
      [n \in {"confidence_threshold"} |-> PyFloat(49)],
      [n \in {"confidence_threshold"} |-> PyInt(1)],
      [n \in {"api_retry_count"} |-> PyFloat(5)],
      [n \in {"api_retry_count"} |-> PyInt(11)],
      [n \in {"db_password"} |-> PyInt(1)],
      ("api_retry_count" :> PyInt(5)) @@ ("max_predictions" :> PyInt(0)) }

NoVerification == [present |-> FALSE]
NoReason == <<>>
Last(op, a, p, ok, reason) == [op |-> op, a |-> a, p |-> p, ok |-> ok, reason |-> reason]

-----------------------------------------------------------------------------
(* Operations *)

\* time passes: d units of 1800 s
Tick(d) ==
    /\ now + d <= MaxTime
    /\ now' = now + d
    /\ last' = Last("tick", 0, 0, TRUE, NoReason)
    /\ UNCHANGED <<plans, nmut, approvals, request_files, approved_plans, approval_files,
                   rejection_files, config, backups, lvars, cvars>>

\* a caller constructs a ChangePlan
NewPlan(description, scope, gain) ==
    /\ Len(plans) < MaxPlans
    /\ plans' = Append(plans,
           ChangePlan(PlanId(Len(plans) + 1), description, scope, "j0", gain,
                      <<"api_retry_count">>))
    /\ last' = Last("new_plan", 0, Len(plans) + 1, TRUE, NoReason)
    /\ UNCHANGED <<now, nmut, approvals, request_files, approved_plans, approval_files,
                   rejection_files, config, backups, lvars, cvars>>

\* a caller assigns an attribute of a plan object
SetField(p, field, value) ==
    /\ nmut < MaxMutations
    /\ plans[p][field] # value
    /\ plans' = [plans EXCEPT ![p][field] = value]
    /\ nmut' = nmut + 1
    /\ last' = Last("set_field", 0, p, TRUE, <<field>>)
    /\ UNCHANGED <<now, approvals, request_files, approved_plans, approval_files,
                   rejection_files, config, backups, lvars, cvars>>

\* PlanApprover.request_approval
RequestApproval(p) ==
    /\ IF plans[p].risk_level # "safe"
         THEN /\ last' = Last("request_approval", 0, p, FALSE, <<"rejected">>)
              /\ UNCHANGED request_files
         ELSE /\ request_files' = request_files \cup {plans[p].id}
              /\ last' = Last("request_approval", 0, p, TRUE, <<"pending">>)
    /\ UNCHANGED <<now, plans, nmut, approvals, approval_files, approved_plans,
                   rejection_files, config, backups, lvars, cvars>>

\* PlanApprover.approve, while fewer than max approvals have been made
ApproveUpTo(p, ttl_hours, max) ==
    /\ IF ConstructionFails(plans[p])
         THEN /\ last' = Last("approve", 0, p, FALSE, <<"ValueError">>)
              /\ UNCHANGED <<approvals, approval_files>>
         ELSE /\ Len(approvals) < max
              /\ approvals' = Append(approvals, ApprovedChangePlan(p, ttl_hours))
              /\ approval_files' =
                    [k \in DOMAIN approval_files \cup {plans[p].id} |->
                        IF k = plans[p].id
                        THEN ApprovalRecord(ApprovedChangePlan(p, ttl_hours))
                        ELSE approval_files[k]]
              /\ last' = Last("approve", Len(approvals) + 1, p, TRUE, NoReason)
    /\ UNCHANGED <<now, plans, nmut, request_files, approved_plans, rejection_files, config, backups, lvars, cvars>>

\* PlanApprover.approve
Approve(p, ttl_hours) == ApproveUpTo(p, ttl_hours, MaxApprovals)

\* PlanRegistry.add_plan called on a plan the caller constructed
AddPlan(p) ==
    /\ \A i \in DOMAIN plan_registry : plan_registry[i] # p
    /\ plan_registry' = Append(plan_registry, p)
    /\ last' = Last("add_plan", 0, p, TRUE, NoReason)
    /\ UNCHANGED <<now, plans, nmut, approvals, request_files, approved_plans, approval_files,
                   rejection_files, config, backups, lvars, baseline_file, baseline_readable,
                   sentinel_signals, active_signals, execution_controls, decision_log>>

\* a reject that marks the plan rejected
RejectMarksPlan(p) ==
    /\ rejection_files' = rejection_files \cup {plans[p].id}
    /\ plans' = [plans EXCEPT ![p].status = "rejected"]
    /\ last' = Last("reject", 0, p, TRUE, <<"rejected">>)
    /\ UNCHANGED <<now, nmut, approvals, request_files, approved_plans, approval_files,
                   config, backups, lvars, cvars>>

\* PlanApprover.reject
Reject(p) ==
    /\ rejection_files' = rejection_files \cup {plans[p].id}
    /\ last' = Last("reject", 0, p, TRUE, <<"rejected">>)
    /\ UNCHANGED <<now, plans, nmut, approvals, request_files, approved_plans, approval_files,
                   config, backups, lvars, cvars>>

\* a revoke that, called on a revoked approval, reinstates it
RevokeOrReinstate(a) ==
    /\ approvals' = [approvals EXCEPT ![a].status =
                         IF @ = "revoked" THEN "approved" ELSE "revoked"]
    /\ last' = Last("revoke", a, approvals[a].plan, TRUE, NoReason)
    /\ UNCHANGED <<now, plans, nmut, request_files, approved_plans, approval_files,
                   rejection_files, config, backups, lvars, cvars>>

\* ApprovedChangePlan.revoke
Revoke(a) ==
    /\ approvals' = [approvals EXCEPT ![a].status = "revoked"]
    /\ last' = Last("revoke", a, approvals[a].plan, TRUE, NoReason)
    /\ UNCHANGED <<now, plans, nmut, request_files, approved_plans, approval_files,
                   rejection_files, config, backups, lvars, cvars>>

\* ApprovedChangePlan.is_valid called by itself
IsValid(a) ==
    /\ approvals' = [approvals EXCEPT ![a].status = StatusAfterIsValid(approvals[a])]
    /\ last' = Last("is_valid", a, approvals[a].plan, is_valid(approvals[a]), NoReason)
    /\ UNCHANGED <<now, plans, nmut, request_files, approved_plans, approval_files,
                   rejection_files, config, backups, lvars, cvars>>

\* ApprovalRegistry.add
RegistryAdd(a) ==
    /\ Len(approved_plans) < MaxApprovals
    /\ approved_plans' = Append(approved_plans, a)
    /\ last' = Last("add", a, approvals[a].plan, TRUE, NoReason)
    /\ UNCHANGED <<now, plans, nmut, approvals, request_files, approval_files,
                   rejection_files, config, backups, lvars, cvars>>

\* ApprovalRegistry.__init__ with _load_existing_approvals: a new registry takes
\* the place of the old one; the loader reads every approval file and, for the
\* records with status 'approved' or 'applied', writes a debug line and adds
\* nothing to the list
NewRegistry ==
    /\ approved_plans' = <<>>
    /\ last' = Last("ApprovalRegistry", 0, 0, TRUE, NoReason)
    /\ UNCHANGED <<now, plans, nmut, approvals, request_files, approval_files,
                   rejection_files, config, backups, lvars, cvars>>

\* ApprovalRegistry.get_valid_approvals; last.reason is the list returned
GetValidApprovals ==
    /\ approvals' =
          [a \in DOMAIN approvals |->
              IF \E i \in DOMAIN approved_plans : approved_plans[i] = a
              THEN [approvals[a] EXCEPT !.status = StatusAfterIsValid(approvals[a])]
              ELSE approvals[a]]
    /\ last' = Last("get_valid_approvals", 0, 0, TRUE, get_valid_approvals)
    /\ UNCHANGED <<now, plans, nmut, approved_plans, request_files, approval_files,
                   rejection_files, config, backups, lvars, cvars>>

\* an apply that marks the approval applied before it writes the configuration
ApplyMarkedFirst(a, changes, io, rb) ==
    LET r == ApplyOutcome(a, changes, io, rb) IN
    /\ approvals' = [approvals EXCEPT ![a].status =
                         IF io = "write_fail" /\ r.reason = <<"exception">>
                         THEN "applied" ELSE r.status]
    /\ config' = r.config
    /\ backups' = r.backups
    /\ last' = Last("apply", a, approvals[a].plan, r.ok, r.reason) @@ [log |-> r.log, io |-> io]
    /\ UNCHANGED <<now, plans, nmut, request_files, approved_plans, approval_files, rejection_files,
                   lvars, cvars>>

\* SafeExecutor.apply with the given result of the parameter extraction
ApplyWith(a, changes, io, rb) ==
    LET r == ApplyOutcome(a, changes, io, rb) IN
    /\ approvals' = [approvals EXCEPT ![a].status = r.status]
    /\ config' = r.config
    /\ backups' = r.backups
    /\ last' = Last("apply", a, approvals[a].plan, r.ok, r.reason) @@ [log |-> r.log, io |-> io]
    /\ UNCHANGED <<now, plans, nmut, request_files, approved_plans, approval_files, rejection_files,
                   lvars, cvars>>

\* SafeExecutor.apply
Apply(a, io, rb) ==
    ApplyWith(a, _extract_parameters(plans[approvals[a].plan]), io, rb)

\* ExecutionVerifier.verify_execution
VerifyExecution(a, pre_change_baseline, post_change_baseline, execution_metrics) ==
    /\ IF VerifyRaises(approvals[a], execution_metrics)
         THEN /\ last' = Last("verify_execution", a, approvals[a].plan, FALSE,
                              <<"AttributeError">>)
              /\ UNCHANGED verification
         ELSE /\ verification' = verify_execution(approvals[a], pre_change_baseline,
                                                 post_change_baseline, execution_metrics)
              /\ last' = Last("verify_execution", a, approvals[a].plan, TRUE, NoReason)
    /\ UNCHANGED <<now, plans, nmut, approvals, request_files, approved_plans, approval_files,
                   rejection_files, config, backups, feedbacks, enrichments,
                   current_session, cvars>>

\* a generate_recommendation that restores the backup when it recommends a rollback
RecommendAndRollback(a) ==
    /\ verification.present
    /\ ~RecommendationRaises(verification)
    /\ LET r == generate_recommendation(verification) IN
       /\ last' = Last("generate_recommendation", a, approvals[a].plan,
                        r.should_rollback, <<ToString(r.confidence)>>)
       /\ config' = IF r.should_rollback /\ DOMAIN backups # {}
                     THEN backups[CHOOSE k \in DOMAIN backups : TRUE]
                     ELSE config
    /\ UNCHANGED <<now, plans, nmut, approvals, approved_plans, request_files,
                   approval_files, rejection_files, backups, lvars, cvars>>

\* RollbackRecommender.generate_recommendation
GenerateRecommendation(a) ==
    /\ verification.present
    /\ IF RecommendationRaises(verification)
         THEN last' = Last("generate_recommendation", a, approvals[a].plan, FALSE,
                           <<"AttributeError">>)
         ELSE LET r == generate_recommendation(verification) IN
              last' = Last("generate_recommendation", a, approvals[a].plan,
                           r.should_rollback, <<ToString(r.confidence)>>)
    /\ UNCHANGED <<now, plans, nmut, approvals, request_files, approved_plans, approval_files,
                   rejection_files, config, backups, lvars, cvars>>

\* CycleOrchestrator.process_cycle of an orchestrator constructed with the
\* baseline collector, on the verification dict v
ProcessCycle(v) ==
    /\ v.present
    /\ IF FeedbackRaises(v)
         THEN /\ last' = Last("process_cycle", 0, 0, FALSE, <<"AttributeError">>)
              /\ UNCHANGED <<feedbacks, enrichments, current_session>>
         ELSE LET outcome == _determine_outcome(v.status, v.rollback_recommended)
                  feedback == VerificationFeedback(v, outcome)
              IN  /\ Len(feedbacks) < MaxFeedbacks
                  /\ feedbacks' = Append(feedbacks, feedback)
                  /\ IF enrich_baseline(feedback)
                       THEN /\ enrichments' = Append(enrichments, EnrichmentRecord(feedback))
                            /\ current_session' =
                                  RecordMetrics(current_session, feedback.post_change_baseline)
                       ELSE UNCHANGED <<enrichments, current_session>>
                  /\ last' = Last("process_cycle", 0, 0, TRUE,
                                   <<outcome, v.status, ToString(v.rollback_recommended)>>)
    /\ UNCHANGED <<now, plans, nmut, approvals, request_files, approved_plans, approval_files,
                   rejection_files, config, backups, verification, cvars>>

\* BaselineEnricher.enrich_baseline called with a feedback of the given outcome,
\* with or without the collector
EnrichBaseline(outcome, baseline_collector) ==
    /\ verification.present
    /\ ~FeedbackRaises(verification)
    /\ LET feedback == VerificationFeedback(verification, outcome) IN
       IF enrich_baseline(feedback)
         THEN /\ Len(enrichments) < MaxFeedbacks
              /\ enrichments' = Append(enrichments, EnrichmentRecord(feedback))
              /\ current_session' =
                    IF baseline_collector
                    THEN RecordMetrics(current_session, feedback.post_change_baseline)
                    ELSE current_session
              /\ last' = Last("enrich_baseline", 0, 0, TRUE, <<outcome>>)
         ELSE /\ last' = Last("enrich_baseline", 0, 0, FALSE, <<outcome>>)
              /\ UNCHANGED <<enrichments, current_session>>
    /\ UNCHANGED <<now, plans, nmut, approvals, request_files, approved_plans, approval_files,
                   rejection_files, config, backups, verification, feedbacks, cvars>>

\* BaselineCollector.record_metric
RecordMetric(metric) ==
    /\ current_session' = RecordMetrics(current_session, metric)
    /\ current_session' # current_session
    /\ last' = Last("record_metric", 0, 0, TRUE, NoReason)
    /\ UNCHANGED <<now, plans, nmut, approvals, request_files, approved_plans, approval_files,
                   rejection_files, config, backups, verification, feedbacks,
                   enrichments, cvars>>

\* the outcomes of the file operations of save_session
SaveFailures == {"ok", "read_fail", "open_fail", "write_fail"}

\* BaselineCollector.save_session when its file operations go as io says: the
\* whole body runs in a try whose except only logs a warning, so the call
\* always returns None. json.load of an unreadable file, or a failing read or
\* open, leaves the file alone; a json.dump that fails after open(..., 'w')
\* has truncated the file leaves a file that no longer parses.
\* last.saved tells whether the session was written.
SaveSessionWith(io) ==
    /\ (baseline_readable /\ io = "ok") => Len(baseline_file) < MaxSessions
    /\ IF baseline_readable /\ io = "ok"
         THEN /\ baseline_file' = Append(baseline_file, current_session)
              /\ baseline_readable' = TRUE
              /\ last' = Last("save_session", 0, 0, TRUE, NoReason) @@ [saved |-> TRUE]
         ELSE /\ IF baseline_readable /\ io = "write_fail"
                   THEN baseline_file' = <<>> /\ baseline_readable' = FALSE
                   ELSE UNCHANGED <<baseline_file, baseline_readable>>
              /\ last' = Last("save_session", 0, 0, TRUE, NoReason) @@ [saved |-> FALSE]
    /\ UNCHANGED <<now, plans, nmut, approvals, request_files, approved_plans, approval_files,
                   rejection_files, config, backups, lvars, sentinel_signals, active_signals,
                   execution_controls, decision_log, plan_registry>>

\* save_session on a file system that works
SaveSession == SaveSessionWith("ok")

\* OverlordController.evaluate_and_apply; last.ok is FALSE when the call raised
\* (TypeError), last.reason holds the argument
EvaluateAndApply(current_metrics) ==
    /\ IF CheckRisksRaises(current_metrics)
         THEN /\ sentinel_signals' = SignalsAtRaise(current_metrics)
              /\ last' = Last("evaluate_and_apply", 0, 0, FALSE, <<current_metrics>>)
              /\ UNCHANGED <<active_signals, execution_controls, decision_log>>
         ELSE LET c == evaluate_and_apply(current_metrics) IN
              /\ Len(c.decision_log) <= MaxLog
              /\ sentinel_signals' = check_risks(current_metrics)
              /\ active_signals' = c.active_signals
              /\ execution_controls' = c.execution_controls
              /\ decision_log' = c.decision_log
              /\ last' = Last("evaluate_and_apply", 0, 0, TRUE, <<current_metrics>>)
    /\ UNCHANGED <<now, plans, nmut, approvals, request_files, approved_plans, approval_files,
                   rejection_files, config, backups, lvars, baseline_file, baseline_readable, plan_registry>>

\* RiskSentinel.check_risks called by itself
CheckRisks(current_metrics) ==
    /\ IF CheckRisksRaises(current_metrics)
         THEN /\ sentinel_signals' = SignalsAtRaise(current_metrics)
              /\ last' = Last("check_risks", 0, 0, FALSE, <<current_metrics>>)
         ELSE /\ sentinel_signals' = check_risks(current_metrics)
              /\ last' = Last("check_risks", 0, 0, TRUE, <<current_metrics>>)
    /\ UNCHANGED <<now, plans, nmut, approvals, request_files, approved_plans, approval_files,
                   rejection_files, config, backups, lvars, baseline_file, baseline_readable,
                   active_signals, execution_controls, decision_log, plan_registry>>

\* a revoke that does not look at reversible
RevokeWhateverReversible(i) ==
    /\ active_signals[i].active
    /\ active_signals' = [active_signals EXCEPT ![i].active = FALSE]
    /\ last' = Last("revoke_signal", 0, 0, TRUE, <<i>>)
    /\ UNCHANGED <<now, plans, nmut, approvals, request_files, approved_plans, approval_files,
                   rejection_files, config, backups, lvars, baseline_file, baseline_readable, sentinel_signals,
                   execution_controls, decision_log, plan_registry>>

\* ControlSignal.revoke on the i-th signal of the controller's list; last.reason
\* holds i
RevokeSignal(i) ==
    /\ active_signals[i].active
    /\ active_signals' =
          [active_signals EXCEPT ![i].active = IF active_signals[i].reversible THEN FALSE ELSE @]
    /\ last' = Last("revoke_signal", 0, 0, TRUE, <<i>>)
    /\ UNCHANGED <<now, plans, nmut, approvals, request_files, approved_plans, approval_files,
                   rejection_files, config, backups, lvars, baseline_file, baseline_readable, sentinel_signals,
                   execution_controls, decision_log, plan_registry>>

\* OverlordController._apply_signals called with one ControlSignal that a caller
\* constructed with the given reversible
ApplySignals(signal_type, attractor, ttl, reversible) ==
    LET signal == [ControlSignal(signal_type, attractor, ttl) EXCEPT !.reversible = reversible]
        c == _apply_signals(
                 ControllerState(active_signals, execution_controls, decision_log), <<signal>>)
    IN  /\ Len(c.decision_log) <= MaxLog
        /\ active_signals' = c.active_signals
        /\ execution_controls' = c.execution_controls
        /\ decision_log' = c.decision_log
        /\ last' = Last("_apply_signals", 0, 0, TRUE, NoReason)
        /\ UNCHANGED <<now, plans, nmut, approvals, request_files, approved_plans,
                       approval_files, rejection_files, config, backups, lvars,
                       baseline_file, baseline_readable, sentinel_signals, plan_registry>>

\* OverlordController._generate_control_signals called on a list of risk
\* signals; last.reason holds the argument and the list returned
GenerateControlSignals(risk_signals) ==
    /\ last' = Last("_generate_control_signals", 0, 0, TRUE,
                     <<risk_signals, _generate_control_signals(risk_signals)>>)
    /\ UNCHANGED <<now, plans, nmut, approvals, request_files, approved_plans, approval_files,
                   rejection_files, config, backups, lvars, cvars>>

\* MetaPlanner.analyze_and_plan called with a decision log the caller hands
\* over; last.reason holds the log and the plans returned, last.ok is FALSE
\* when the call raised
AnalyzeAndPlan(current_metrics, log) ==
    /\ IF AnalyzeRaises(current_metrics)
         THEN last' = Last("analyze_and_plan", 0, 0, FALSE, <<log, <<>>>>)
         ELSE last' = Last("analyze_and_plan", 0, 0, TRUE,
                           <<log, analyze_and_plan(current_metrics, log)>>)
    /\ UNCHANGED <<now, plans, nmut, approvals, request_files, approved_plans, approval_files,
                   rejection_files, config, backups, lvars, cvars>>

\* a generate_plans that records what it proposed in the decision log
GeneratePlansAndLog(current_metrics) ==
    LET proposed == IF AnalyzeRaises(current_metrics) THEN <<>>
                    ELSE analyze_and_plan(current_metrics, decision_log)
        NewPlanAt(i) ==
            [ChangePlan(PlanId(Len(plans) + i), proposed[i].description, "parameter",
                        "j0", proposed[i].expected_gain, proposed[i].affected_parameters)
                EXCEPT !.metrics_evidence = proposed[i].metrics_evidence]
    IN  /\ Len(plans) + Len(proposed) <= MaxPlans
        /\ plans' = plans \o [i \in 1..Len(proposed) |-> NewPlanAt(i)]
        /\ plan_registry' = plan_registry \o [i \in 1..Len(proposed) |-> Len(plans) + i]
        /\ decision_log' = IF proposed # <<>> /\ Len(decision_log) < MaxLog
                              THEN Append(decision_log, "plans_generated")
                              ELSE decision_log
        /\ last' = Last("generate_plans", 0, 0, TRUE, <<current_metrics>>)
        /\ UNCHANGED <<now, nmut, approvals, request_files, approved_plans, approval_files,
                       rejection_files, config, backups, lvars, baseline_file, baseline_readable,
                       sentinel_signals, active_signals, execution_controls>>

\* OverlordController.generate_plans
GeneratePlans(current_metrics) ==
    LET proposed == IF AnalyzeRaises(current_metrics) THEN <<>>
                    ELSE analyze_and_plan(current_metrics, decision_log)
        NewPlanAt(i) ==
            [ChangePlan(PlanId(Len(plans) + i), proposed[i].description, "parameter",
                        "j0", proposed[i].expected_gain, proposed[i].affected_parameters)
                EXCEPT !.metrics_evidence = proposed[i].metrics_evidence]
    IN  /\ Len(plans) + Len(proposed) <= MaxPlans
        /\ plans' = plans \o [i \in 1..Len(proposed) |-> NewPlanAt(i)]
        /\ plan_registry' = plan_registry \o [i \in 1..Len(proposed) |-> Len(plans) + i]
        /\ last' = Last("generate_plans", 0, 0, TRUE, <<current_metrics>>)
        /\ UNCHANGED <<now, nmut, approvals, request_files, approved_plans, approval_files,
                       rejection_files, config, backups, lvars, baseline_file, baseline_readable,
                       sentinel_signals, active_signals, execution_controls, decision_log>>

-----------------------------------------------------------------------------
(* The approval workflow and the applier *)

Init ==
    /\ now = 0
    /\ plans = <<>>
    /\ nmut = 0
    /\ approvals = <<>>
    /\ approved_plans = <<>>
    /\ request_files = {}
    /\ approval_files = [k \in {} |-> [status |-> "approved", expires_at |-> 0, checksum |-> <<>>]]
    /\ rejection_files = {}
    /\ config = DefaultConfig
    /\ backups = [k \in {} |-> DefaultConfig]
    /\ verification = NoVerification
    /\ feedbacks = <<>>
    /\ enrichments = <<>>
    /\ current_session = NewSession
    /\ baseline_file = <<>>
    /\ baseline_readable = TRUE
    /\ sentinel_signals = <<>>
    /\ active_signals = <<>>
    /\ execution_controls = ExecutionControls
    /\ decision_log = <<>>
    /\ plan_registry = <<>>
    /\ last = Last("init", 0, 0, TRUE, NoReason)

Construct(descriptions) ==
    \E d \in descriptions, s \in Scopes : NewPlan(d, s, TextGain)

Mutate ==
    \E p \in DOMAIN plans :
        \/ \E v \in IdValues : SetField(p, "id", v)
        \/ \E v \in Descriptions : SetField(p, "description", v)
        \/ \E v \in Scopes : SetField(p, "scope", v)
        \/ \E v \in Risks : SetField(p, "risk_level", v)
        \/ \E v \in Justifications : SetField(p, "justification", v)
        \/ \E v \in Evidence : SetField(p, "metrics_evidence", v)
        \/ \E v \in AffectedLists : SetField(p, "affected_parameters", v)
        \/ \E v \in 0..MaxTime : SetField(p, "created_at", v)

Workflow ==
    \/ \E p \in DOMAIN plans, t \in TTLHours : Approve(p, t)
    \/ \E a \in DOMAIN approvals : Revoke(a)
    \/ \E a \in DOMAIN approvals : IsValid(a)

Requests ==
    \/ \E p \in DOMAIN plans : RequestApproval(p)
    \/ \E p \in DOMAIN plans : Reject(p)

Execute(failures) ==
    \E a \in DOMAIN approvals, io \in failures, rb \in BOOLEAN : Apply(a, io, rb)

NextApply ==
    \/ Tick(2)
    \/ Construct({<<"x">>, <<"confidence">>, <<"retry">>})
    \/ Workflow
    \/ Execute({"ok"})

SpecApply == Init /\ [][NextApply]_vars

\* registered plans taken through the approval workflow and the applier
NextActivePlans ==
    \/ Tick(2)
    \/ Construct({<<"x">>, <<"confidence">>})
    \/ \E p \in DOMAIN plans : AddPlan(p)
    \/ Requests
    \/ Workflow
    \/ Execute({"ok"})

SpecActivePlans == Init /\ [][NextActivePlans]_vars

-----------------------------------------------------------------------------
(* A plan approved more than once *)

NextReapply ==
    \/ Tick(2)
    \/ NewPlan(<<"confidence">>, "parameter", TextGain)
    \/ \E p \in DOMAIN plans, t \in TTLHours : ApproveUpTo(p, t, MaxReapprovals)
    \/ \E a \in DOMAIN approvals : IsValid(a)
    \/ Execute({"ok"})

SpecReapply == Init /\ [][NextReapply]_vars

-----------------------------------------------------------------------------
(* File operations that fail during apply *)

NextFailure ==
    \/ Tick(1)
    \/ Construct({<<"x">>, <<"confidence">>, <<"ttl">>, <<"retry">>})
    \/ Workflow
    \/ Execute(IOFailures)

SpecFailure == Init /\ [][NextFailure]_vars

-----------------------------------------------------------------------------
(* Plans assigned to after approval *)

NextTamper ==
    \/ Tick(2)
    \/ NewPlan(<<"x", "|", "confidence">>, "parameter", TextGain)
    \/ \E p \in DOMAIN plans, t \in TTLHours : Approve(p, t)
    \/ Mutate
    \/ Execute({"ok"})

SpecTamper == Init /\ [][NextTamper]_vars

-----------------------------------------------------------------------------
(* The approval registry *)

NextRegistry ==
    \/ Tick(2)
    \/ NewPlan(<<"confidence">>, "parameter", TextGain)
    \/ Workflow
    \/ \E p \in DOMAIN plans : SetField(p, "description", <<"x">>)
    \/ \E p \in DOMAIN plans, v \in Justifications : SetField(p, "justification", v)
    \/ \E a \in DOMAIN approvals : RegistryAdd(a)
    \/ GetValidApprovals

SpecRegistry == Init /\ [][NextRegistry]_vars

\* the registry created anew while approval files exist
NextRestart ==
    \/ Tick(2)
    \/ NewPlan(<<"confidence">>, "parameter", TextGain)
    \/ Workflow
    \/ \E a \in DOMAIN approvals : RegistryAdd(a)
    \/ NewRegistry
    \/ GetValidApprovals

SpecRestart == Init /\ [][NextRestart]_vars

-----------------------------------------------------------------------------
(* The applier's validation on any parameter dict *)

ExecuteWith ==
    \E a \in DOMAIN approvals, changes \in ChangeSets : ApplyWith(a, changes, "ok", TRUE)

NextBatch ==
    \/ Tick(2)
    \/ NewPlan(<<"confidence">>, "parameter", TextGain)
    \/ Workflow
    \/ ExecuteWith

SpecBatch == Init /\ [][NextBatch]_vars

-----------------------------------------------------------------------------
(* Verification and the feedback loop *)

\* arguments of verify_execution: every metrics dict without baselines, and
\* every pair of baselines with a gain above 5 percent and with a loss
Scenarios ==
    {<<NoMetrics, NoMetrics, m>> : m \in ExecutionMetrics}
    \cup {<<b[1], b[2], m>> : b \in BaselinePairs,
                              m \in {"api_first_score" :> Num(106), "net_change" :> Num(-5)}}

Verify(scenarios) ==
    \E a \in DOMAIN approvals, s \in scenarios : VerifyExecution(a, s[1], s[2], s[3])

Recommend ==
    \E a \in DOMAIN approvals : GenerateRecommendation(a)

NextVerify ==
    \/ \E g \in ExpectedGains : NewPlan(<<"confidence">>, "parameter", g)
    \/ \E p \in DOMAIN plans, t \in TTLHours : Approve(p, t)
    \/ \E p \in DOMAIN plans : SetField(p, "description", <<"x">>)
    \/ Verify(Scenarios)
    \/ Recommend

SpecVerify == Init /\ [][NextVerify]_vars

\* one scenario for each verification status
CycleGains ==
    {DictGain("api_first_score" :> Num(100)), DictGain("net_change" :> Num(-10))}
CycleScenarios ==
    { <<NoMetrics, NoMetrics, "api_first_score" :> Num(106)>>,
      <<"ui_fallbacks" :> Num(2), "ui_fallbacks" :> Num(10), "api_first_score" :> Num(106)>>,
      <<"ui_fallbacks" :> Num(100), "ui_fallbacks" :> Num(104), "api_first_score" :> Num(104)>>,
      <<NoMetrics, NoMetrics, "api_first_score" :> Num(90)>>,
      <<NoMetrics, NoMetrics, "net_change" :> Num(-5)>> }

\* process_cycle on the dict the verifier returned, or on one a caller edited
Cycle(statuses) ==
    \/ ProcessCycle(verification)
    \/ \E s \in statuses, r \in BOOLEAN :
          /\ verification.present
          /\ ProcessCycle([verification EXCEPT !.status = s, !.rollback_recommended = r])

Enrich ==
    \E o \in PlanOutcome, c \in BOOLEAN : EnrichBaseline(o, c)

NextCycle ==
    \/ \E g \in CycleGains : NewPlan(<<"confidence">>, "parameter", g)
    \/ \E p \in DOMAIN plans, t \in TTLHours : Approve(p, t)
    \/ \E p \in DOMAIN plans : SetField(p, "description", <<"x">>)
    \/ Verify(CycleScenarios)
    \/ Cycle(CycleStatuses)
    \/ Enrich
    \/ SaveSession

SpecCycle == Init /\ [][NextCycle]_vars

-----------------------------------------------------------------------------
(* Verification of a plan that was applied *)

\* baselines without and with a critical drift, and a gain of 6 percent
AppliedScenarios ==
    { <<NoMetrics, NoMetrics, "api_first_score" :> Num(106)>>,
      <<"ui_fallbacks" :> Num(2), "ui_fallbacks" :> Num(10), "api_first_score" :> Num(106)>> }

NextAdvice ==
    \/ NewPlan(<<"confidence">>, "parameter", DictGain("api_first_score" :> Num(100)))
    \/ \E p \in DOMAIN plans, t \in TTLHours : Approve(p, t)
    \/ \E p \in DOMAIN plans : SetField(p, "description", <<"x">>)
    \/ Execute({"ok"})
    \/ Verify(AppliedScenarios)
    \/ Recommend
    \/ ProcessCycle(verification)

SpecAdvice == Init /\ [][NextAdvice]_vars

-----------------------------------------------------------------------------
(* The sentinel, the controller and the planner *)

\* the metrics of one run recorded by the collector
SessionMetrics == ("api_first_score" :> Num(90)) @@ ("ui_fallbacks" :> Num(10))

\* before and after the first session is committed: every operation that
\* consults the baseline
NextColdStart ==
    \/ RecordMetric(SessionMetrics)
    \/ SaveSession
    \/ \E m \in ControllerMetrics : CheckRisks(m)
    \/ \E m \in ControllerMetrics : EvaluateAndApply(m)
    \/ \E m \in ControllerMetrics : GeneratePlans(m)

SpecColdStart == Init /\ [][NextColdStart]_vars

\* the baseline store on a file system that can fail: sessions are recorded and
\* committed, and the sentinel reads the summary back
NextStore ==
    \/ \E m \in RecordedMetrics : RecordMetric(m)
    \/ \E io \in SaveFailures : SaveSessionWith(io)
    \/ \E m \in ControllerMetrics : CheckRisks(m)

SpecStore == Init /\ [][NextStore]_vars

\* the planner on decision logs of every shape, before and after a baseline exists
NextPlanning ==
    \/ RecordMetric(SessionMetrics)
    \/ SaveSession
    \/ \E m \in {NoMetrics, "ui_fallbacks" :> Num(6)}, log \in DecisionLogs :
          AnalyzeAndPlan(m, log)

SpecPlanning == Init /\ [][NextPlanning]_vars

\* the current_metrics that raise the signals with an effect on the controls
\* or none, and one that makes check_risks raise
SignalMetrics ==
    { NoMetrics,
      "demo_fallbacks" :> Num(1),
      "api_first_score" :> Num(50),
      ("api_first_score" :> Num(50)) @@ ("ui_fallbacks" :> PyNone) }

Signals ==
    \E i \in DOMAIN active_signals : RevokeSignal(i)

\* the controller's signals over time
NextControl ==
    \/ Tick(1)
    \/ RecordMetric(SessionMetrics)
    \/ SaveSession
    \/ \E m \in SignalMetrics : EvaluateAndApply(m)
    \/ Signals

SpecControl == Init /\ [][NextControl]_vars

\* signals constructed reversible and not reversible, and their revocation
NextRevoke ==
    \/ Tick(1)
    \/ \E t \in {"hard_limit", "log_only"}, r \in BOOLEAN :
          ApplySignals(t, "demo_only_mode", 1, r)
    \/ Signals
    \/ EvaluateAndApply(NoMetrics)

SpecRevoke == Init /\ [][NextRevoke]_vars

\* signal generation on every risk signal, at any time
NextSignals ==
    \/ Tick(1)
    \/ \E risk \in RiskSignals : GenerateControlSignals(<<risk>>)

SpecSignals == Init /\ [][NextSignals]_vars

-----------------------------------------------------------------------------
(* The whole control plane *)

Control(recorded, metrics) ==
    \/ \E m \in recorded : RecordMetric(m)
    \/ SaveSession
    \/ \E m \in metrics : EvaluateAndApply(m)
    \/ \E m \in metrics : GeneratePlans(m)

Next ==
    \/ Tick(2)
    \/ Construct({<<"confidence">>})
    \/ Workflow
    \/ Requests
    \/ Execute({"ok"})
    \/ Verify({<<NoMetrics, NoMetrics, NoMetrics>>})
    \/ Cycle({"rolled_back"})
    \/ Recommend
    \/ Control({"ui_fallbacks" :> Num(10)}, {"ui_fallbacks" :> Num(6)})

Spec == Init /\ [][Next]_vars

-----------------------------------------------------------------------------
(* Properties *)

\* the step just taken was a call of op
Called(op) == last'.op = op

\* C1: a parameter of the persisted configuration changes only in a successful
\* SafeExecutor.apply on an approval that, when apply was called, had status
\* 'approved', was within its TTL, passed verify_integrity and wrapped a plan of
\* scope PARAMETER and risk SAFE; an approval object or an approval record comes
\* into being only in PlanApprover.approve.
C1_SanctionedExecution ==
    [][ /\ (config'.parameters # config.parameters =>
              /\ Called("apply") /\ last'.ok
              /\ last'.a \in DOMAIN approvals
              /\ LET ap == approvals[last'.a] IN
                 /\ ap.status = "approved"
                 /\ now <= ap.expires_at
                 /\ verify_integrity(ap)
                 /\ plans[ap.plan].scope = "parameter"
                 /\ plans[ap.plan].risk_level = "safe")
        /\ (Len(approvals') # Len(approvals) \/ DOMAIN approval_files' # DOMAIN approval_files =>
              Called("approve") /\ last'.ok) ]_vars

\* apply has changed a parameter of the configuration
C1_Witness ==
    /\ last.op = "apply" /\ last.ok
    /\ config.parameters # DefaultParameters
    /\ approvals[last.a].status = "applied"

\* C2: a plan of scope LOGIC or ARCHITECTURE never has risk SAFE, the constructor
\* of ApprovedChangePlan fails on it, and approve on it returns None, creates no
\* approval and persists no approval record.
C2_NonParameterNeverApproved ==
    /\ [](\A p \in DOMAIN plans :
            plans[p].scope \in {"logic", "architecture"} =>
                plans[p].risk_level # "safe" /\ ConstructionFails(plans[p]))
    /\ [][ Called("approve") /\ plans[last'.p].scope \in {"logic", "architecture"} =>
              /\ ~last'.ok
              /\ approvals' = approvals
              /\ approval_files' = approval_files ]_vars

\* approve was called on a LOGIC plan and on an ARCHITECTURE plan and failed
C2_Witness ==
    /\ last.op = "approve" /\ ~last.ok
    /\ plans[last.p].scope \in {"logic", "architecture"}
    /\ plans[last.p].risk_level \in {"review", "forbidden"}
    /\ approvals = <<>>

\* a parameter change the whitelist rejects: name not listed, wrong type, below
\* min or above max
Violates(name, value) ==
    \/ name \notin DOMAIN ALLOWED_PARAMETERS
    \/ /\ name \in DOMAIN ALLOWED_PARAMETERS
       /\ \/ value.t \notin {ALLOWED_PARAMETERS[name].type} \cup
                            (IF ALLOWED_PARAMETERS[name].type = "int" THEN {"bool"} ELSE {})
          \/ value.v < ALLOWED_PARAMETERS[name].min
          \/ value.v > ALLOWED_PARAMETERS[name].max

\* C3: when one of the changes handed to the applier's validation violates the
\* whitelist, apply returns failure, the persisted configuration is what it was
\* before the call, and an approval that was valid keeps status 'approved'.
C3_AllOrNothing ==
    [][ \A a \in DOMAIN approvals, changes \in ChangeSets :
          (/\ Called("apply") /\ last'.a = a
           /\ \E n \in DOMAIN changes : Violates(n, changes[n])
           /\ ApplyWith(a, changes, "ok", TRUE)) =>
              /\ ~last'.ok
              /\ config' = config
              /\ (is_valid(approvals[a]) => approvals'[a].status = "approved") ]_vars

\* apply reached the validation with a valid approval and the validation failed
C3_Witness ==
    /\ last.op = "apply" /\ ~last.ok
    /\ last.reason = <<"Validation failed: ">>
    /\ approvals[last.a].status = "approved"
    /\ config = DefaultConfig

\* C4: apply on an approval whose status is 'applied' returns failure, creates
\* no backup, leaves the configuration and its modification log as they were,
\* and the status stays 'applied'.
C4_SecondApplyRejected ==
    [][ Called("apply") /\ approvals[last'.a].status = "applied" =>
          /\ ~last'.ok
          /\ backups' = backups
          /\ config' = config
          /\ approvals' = approvals ]_vars

\* apply was called on an approval already applied
C4_Witness ==
    /\ last.op = "apply" /\ ~last.ok
    /\ last.reason = <<"Approval not valid: ", "applied">>
    /\ approvals[last.a].status = "applied"
    /\ Len(config.modifications) = 1

\* C5: is_valid() returns true exactly when the status is 'approved' and
\* now <= expires_at; called on an approval still 'approved' after expires_at
\* it returns false and sets the status to 'expired'.
C5_LazyExpiry ==
    [][ Called("is_valid") =>
          LET ap == approvals[last'.a] IN
          /\ last'.ok = (ap.status = "approved" /\ now <= ap.expires_at)
          /\ (ap.status = "approved" /\ now > ap.expires_at =>
                ~last'.ok /\ approvals'[last'.a].status = "expired")
          /\ (~(ap.status = "approved" /\ now > ap.expires_at) =>
                approvals'[last'.a].status = ap.status) ]_vars

\* is_valid() was the call that found the TTL passed
C5_Witness ==
    /\ last.op = "is_valid" /\ ~last.ok
    /\ approvals[last.a].status = "expired"
    /\ now > approvals[last.a].expires_at
    /\ config = DefaultConfig /\ DOMAIN backups = {}

\* apply on an approval still 'approved' after its expires_at: what the claim
\* says of it, with the given text of the reason
ApplyAfterExpiry(reason) ==
    (/\ Called("apply")
     /\ approvals[last'.a].status = "approved"
     /\ now > approvals[last'.a].expires_at)
    => /\ ~last'.ok
       /\ last'.reason = reason
       /\ approvals'[last'.a].status = "expired"
       /\ backups' = backups
       /\ config' = config

CoveredFields == {"id", "description", "scope", "affected_parameters", "created_at"}

\* C7: verify_integrity() returns false when an attribute the checksum covers
\* differs from its value at approval, and true when none does.
C7_CoveredFieldsDetected ==
    \A a \in DOMAIN approvals :
        LET ap == approvals[a] IN
        verify_integrity(ap) = (\A f \in CoveredFields : plans[ap.plan][f] = ap.snap[f])

\* C8: apply on an approval whose plan differs in any attribute from the plan
\* that was approved returns failure and leaves the configuration unchanged.
C8_MutationBlocksApply ==
    [][ Called("apply") /\ plans[approvals[last'.a].plan] # approvals[last'.a].snap =>
          ~last'.ok /\ config' = config ]_vars

\* C9: process_cycle and enrich_baseline record metrics into the baseline
\* collector and write an enrichment record only when the outcome is success
\* or partial success; process_cycle on a verification with
\* rollback_recommended = true leaves both unchanged whatever its status.
C9_EnrichOnlyOnSuccess ==
    [][ Called("process_cycle") \/ Called("enrich_baseline") =>
          /\ (current_session' # current_session \/ enrichments' # enrichments =>
                last'.reason[1] \in {"success", "partial_success"})
          /\ (last'.reason[1] \in {"no_effect", "negative", "failed", "rolled_back"} =>
                UNCHANGED <<current_session, enrichments>>)
          /\ (Called("process_cycle") /\ last'.ok /\ last'.reason[3] = "TRUE" =>
                UNCHANGED <<current_session, enrichments>>) ]_vars

\* process_cycle ran on a verification of status 'success' with
\* rollback_recommended = true, and the collector is as constructed
C9_Witness ==
    /\ last.op = "process_cycle" /\ last.ok
    /\ last.reason = <<"negative", "success", "TRUE">>
    /\ Len(feedbacks) = 1
    /\ current_session = NewSession
    /\ enrichments = <<>>

\* C10: a verification record whose gain_validation.gain_percentage is below 0
\* has rollback_recommended = true.
C10_NegativeGainRecommendsRollback ==
    verification.present =>
        (verification.gain_validation.present
            /\ FracLess(verification.gain_validation.gain_percentage, Zero)
         => verification.rollback_recommended)

\* verify_execution returned a record with a gain below 0
C10_Witness ==
    /\ last.op = "verify_execution" /\ last.ok
    /\ verification.present
    /\ verification.gain_validation.present
    /\ FracLess(verification.gain_validation.gain_percentage, Zero)
    /\ verification.status = "negative"

\* some metric present as a number in both baselines differs from its
\* pre-change value by more than 20 percent of that value
ChangesByMoreThanTwenty(pre_change_baseline, post_change_baseline) ==
    \E m \in DOMAIN pre_change_baseline \cap DOMAIN post_change_baseline :
        /\ IsNumber(pre_change_baseline[m]) /\ IsNumber(post_change_baseline[m])
        /\ pre_change_baseline[m].v # 0
        /\ Abs(post_change_baseline[m].v - pre_change_baseline[m].v) * 100
               > 20 * Abs(pre_change_baseline[m].v)

\* C11: verify_execution on an approval that passes verify_integrity, with
\* baselines in which a common metric changes by more than 20 percent, returns
\* a record with drift_level 'critical', rollback_recommended = true and the
\* critical-drift justification, whatever the plan's expected gain and the
\* execution metrics are.
C11_CriticalDriftRecommendsRollback ==
    [][ \A a \in DOMAIN approvals, s \in Scenarios :
          (/\ Called("verify_execution") /\ last'.a = a
           /\ verify_integrity(approvals[a])
           /\ ChangesByMoreThanTwenty(s[1], s[2])
           /\ VerifyExecution(a, s[1], s[2], s[3])) =>
              /\ last'.ok
              /\ verification'.drift_detection.drift_level = "critical"
              /\ verification'.rollback_recommended
              /\ verification'.rollback_justification = "Critical drift in metrics" ]_vars

\* C12: verify_execution on an approval whose plan no longer hashes to the stored
\* checksum returns a record with status 'failed', rollback_recommended = true
\* and the integrity justification, whatever the baselines and the execution
\* metrics are, and the record holds neither a gain validation nor a drift report.
C12_IntegrityFailureForcesRollback ==
    [][ \A a \in DOMAIN approvals, s \in Scenarios :
          (/\ Called("verify_execution") /\ last'.a = a
           /\ _calculate_checksum(plans[approvals[a].plan]) # approvals[a].checksum
           /\ VerifyExecution(a, s[1], s[2], s[3])) =>
              /\ last'.ok
              /\ verification'.status = "failed"
              /\ ~verification'.integrity_check
              /\ verification'.rollback_recommended
              /\ verification'.rollback_justification = "Plan integrity compromised"
              /\ ~verification'.gain_validation.present
              /\ ~verification'.drift_detection.present ]_vars

\* verify_execution ran on a modified plan with a critical drift between the
\* baselines and a gain in the execution metrics
C12_Witness ==
    /\ last.op = "verify_execution" /\ last.ok
    /\ verification.present
    /\ ~verify_integrity(approvals[last.a])
    /\ verification.status = "failed"
    /\ verification.pre_change_baseline = "ui_fallbacks" :> Num(2)
    /\ verification.post_change_baseline = "ui_fallbacks" :> Num(10)
    /\ verification.actual_metrics = "api_first_score" :> Num(106)

\* C13: while no session has been committed to the baseline file, check_risks
\* returns an empty list without raising for every current_metrics,
\* evaluate_and_apply returns without raising, activates no control signal and
\* leaves ExecutionControls as constructed, and generate_plans (analyze_and_plan)
\* proposes no plan.
C13_ColdStartNoSignal ==
    [][ baseline_file = <<>> =>
          /\ (Called("check_risks") => last'.ok /\ sentinel_signals' = <<>>)
          /\ (Called("evaluate_and_apply") =>
                /\ last'.ok
                /\ sentinel_signals' = <<>>
                /\ active_signals' = <<>>
                /\ decision_log' = <<>>
                /\ execution_controls' = ExecutionControls)
          /\ (Called("generate_plans") =>
                /\ plans' = plans
                /\ plan_registry' = <<>>) ]_vars

\* evaluate_and_apply ran without a baseline on metrics that hold a value that
\* is no number
C13_Witness ==
    /\ last.op = "evaluate_and_apply" /\ last.ok
    /\ last.reason = <<("api_first_score" :> Num(50)) @@ ("ui_fallbacks" :> PyNone)>>
    /\ baseline_file = <<>>
    /\ current_session # NewSession
    /\ active_signals = <<>>

\* the sessions of the baseline file hold an api_first_score, and the number
\* under 'api_first_score' of current_metrics is below 80 percent of their mean
ScoreBelowEightyPercent(current_metrics) ==
    /\ CountOf(baseline_file, "api_first_score") > 0
    /\ "api_first_score" \in DOMAIN current_metrics
    /\ IsNumber(current_metrics["api_first_score"])
    /\ current_metrics["api_first_score"].v * 10 * CountOf(baseline_file, "api_first_score")
           < 8 * SumOf(baseline_file, "api_first_score")

\* C14: when a session has been committed and the current api_first_score is
\* below 80 percent of the baseline mean, check_risks puts a MEDIUM
\* api_score_drop risk signal into its list, and when evaluate_and_apply
\* returns the controller holds an EXECUTION_GUARD signal for api_score_drop
\* that is active (not revoked, not expired).
C14_ScoreDropActivatesGuard ==
    [][ Called("evaluate_and_apply") /\ ScoreBelowEightyPercent(last'.reason[1]) =>
          /\ \E i \in DOMAIN sentinel_signals' :
                sentinel_signals'[i] = Risk("api_score_drop", "medium")
          /\ (last'.ok =>
                \E i \in DOMAIN active_signals' :
                    /\ active_signals'[i].signal_type = "execution_guard"
                    /\ active_signals'[i].attractor = "api_score_drop"
                    /\ active_signals'[i].active
                    /\ now' <= active_signals'[i].expires_at) ]_vars

\* evaluate_and_apply returned on a score of 50 against a baseline mean of 90,
\* some time after the controller was constructed
C14_Witness ==
    /\ last.op = "evaluate_and_apply" /\ last.ok
    /\ last.reason = <<"api_first_score" :> Num(50)>>
    /\ SumOf(baseline_file, "api_first_score") = 90 * Len(baseline_file)
    /\ now > 0
    /\ \E i \in DOMAIN active_signals :
          active_signals[i].signal_type = "execution_guard" /\ is_active(active_signals[i])

C16_OneSignalPerPair ==
    \A i, j \in DOMAIN active_signals :
        (/\ active_signals[i].attractor = active_signals[j].attractor
         /\ active_signals[i].signal_type = active_signals[j].signal_type) => i = j

\* the list holds a signal of the given type for the given attractor that is
\* neither revoked nor past its expires_at at the given time
HasActive(list, signal_type, attractor, time) ==
    \E i \in DOMAIN list :
        /\ list[i].signal_type = signal_type
        /\ list[i].attractor = attractor
        /\ list[i].active
        /\ time <= list[i].expires_at

\* C17: when evaluate_and_apply returns, force_demo_mode and block_live_mode
\* are true iff an active HARD_LIMIT signal for demo_only_mode exists,
\* disable_ui_fallback is true iff an active MODE_DOWNGRADE signal for the
\* playwright failure exists, and ci_early_exit is true iff an active
\* EARLY_EXIT signal for runtime_spike exists.
C17_ControlsFoldActiveSignals ==
    [][ Called("evaluate_and_apply") /\ last'.ok =>
          /\ execution_controls'.force_demo_mode
                = HasActive(active_signals', "hard_limit", "demo_only_mode", now')
          /\ execution_controls'.block_live_mode
                = HasActive(active_signals', "hard_limit", "demo_only_mode", now')
          /\ execution_controls'.disable_ui_fallback
                = HasActive(active_signals', "mode_downgrade", "playwright_fail", now')
          /\ execution_controls'.ci_early_exit
                = HasActive(active_signals', "early_exit", "runtime_spike", now') ]_vars

\* C18: get_valid_approvals returns exactly the registered approvals that have
\* status 'approved', are within their TTL and whose plan hashes to the stored
\* checksum, and it never returns an approval whose plan differs from the plan
\* that was approved.
C18_ValidApprovalsAreIntact ==
    [][ Called("get_valid_approvals") =>
          /\ last'.reason =
                SelectSeq(approved_plans,
                    LAMBDA a : /\ approvals[a].status = "approved"
                               /\ now <= approvals[a].expires_at
                               /\ _calculate_checksum(plans[approvals[a].plan])
                                      = approvals[a].checksum)
          /\ \A i \in DOMAIN last'.reason :
                plans[approvals[last'.reason[i]].plan] = approvals[last'.reason[i]].snap ]_vars

\* C19: once a rejection record exists for a plan id, approve on a plan of that
\* id returns no approval, no apply on an approval of that id changes the
\* configuration, and no plan id has both an approval record and a rejection
\* record.
C19_RejectionIsFinal ==
    /\ [](DOMAIN approval_files \cap rejection_files = {})
    /\ [][ /\ (Called("approve") /\ plans[last'.p].id \in rejection_files =>
                 ~last'.ok /\ approvals' = approvals)
           /\ (Called("apply") /\ approvals[last'.a].plan_id \in rejection_files =>
                 config' = config) ]_vars

\* C20: verify_execution, generate_recommendation and process_cycle leave the
\* configuration file, the backups and every approval as they were, whatever
\* the verification says: no rollback is executed, a recommendation is only
\* returned and recorded.
C20_RollbackIsAdviceOnly ==
    [][ Called("verify_execution") \/ Called("generate_recommendation")
            \/ Called("process_cycle") =>
          /\ config' = config
          /\ backups' = backups
          /\ approvals' = approvals ]_vars

\* generate_recommendation recommended a rollback of a plan that was applied
\* and has a backup, and the configuration still holds the applied value
C20_Witness ==
    /\ last.op = "generate_recommendation" /\ last.ok
    /\ verification.rollback_recommended
    /\ approvals[last.a].status = "applied"
    /\ DOMAIN backups # {}
    /\ config.parameters["confidence_threshold"] = PyFloat(75)

\* C21: on every record verify_execution returns, the integrity-failure record
\* included, process_cycle returns a feedback that it has appended to the
\* feedback registry and generate_recommendation returns a recommendation;
\* neither raises.
C21_EveryRecordIsProcessed ==
    [][ /\ (Called("process_cycle") =>
              /\ last'.ok
              /\ Len(feedbacks') = Len(feedbacks) + 1
              /\ feedbacks'[Len(feedbacks')].plan_id = verification.plan_id)
        /\ (Called("generate_recommendation") =>
              last'.reason # <<"AttributeError">>) ]_vars

\* C22: apply checks validity, integrity, scope and risk before it makes the
\* backup, makes the backup before it extracts and validates the parameters,
\* and writes the configuration and marks the approval applied last: a call
\* one of the checks rejects creates no backup and writes nothing, a call that
\* passes them leaves a backup holding the configuration as it was, the
\* configuration changes only when that backup exists and the modification
\* record appended names it, and the approval becomes 'applied' only when the
\* configuration was written.
C22_ApplyStepOrder ==
    [][ Called("apply") =>
          LET ap == approvals[last'.a]
              pl == plans[ap.plan]
              name == BackupName(ap.plan_id)
              rejected == \/ ~(ap.status = "approved" /\ now <= ap.expires_at)
                          \/ _calculate_checksum(pl) # ap.checksum
                          \/ pl.scope # "parameter"
                          \/ pl.risk_level # "safe"
          IN  /\ (rejected =>
                    ~last'.ok /\ backups' = backups /\ config' = config)
              /\ (~rejected /\ last'.reason # <<"Failed to create backup">> =>
                    name \in DOMAIN backups' /\ backups'[name] = config)
              /\ (config' # config =>
                    name \in DOMAIN backups' /\ backups'[name] = config)
              /\ (last'.ok =>
                    /\ config' # config
                    /\ config'.modifications[Len(config'.modifications)].backup_file = name)
              /\ (approvals'[last'.a].status = "applied" /\ ap.status # "applied" =>
                    config' # config /\ last'.ok) ]_vars

\* apply has written the configuration and its modification record names a
\* backup that holds the configuration as it was before the call
C22_Witness ==
    /\ last.op = "apply" /\ last.ok
    /\ Len(config.modifications) = 1
    /\ config.modifications[1].backup_file \in DOMAIN backups
    /\ backups[config.modifications[1].backup_file] = DefaultConfig
    /\ config.parameters # DefaultParameters
    /\ nmut > 0

C24_OnlyAffectedParametersChange ==
    [][ Called("apply") /\ last'.ok =>
          LET affected_parameters == plans[approvals[last'.a].plan].affected_parameters IN
          \A n \in DOMAIN config'.parameters :
              DictGet(config'.parameters, n) # DictGet(config.parameters, n) =>
                  \E i \in DOMAIN affected_parameters : affected_parameters[i] = n ]_vars

\* C25: apply on an approval of a plan for which the modification log already
\* holds a record returns failure and leaves the configuration as it was,
\* whichever approval of the plan it is called with, and the modification log
\* never holds two records with the same plan id.
C25_AppliedPlanNeverReapplied ==
    /\ [](\A i, j \in DOMAIN config.modifications :
            config.modifications[i].plan_id = config.modifications[j].plan_id => i = j)
    /\ [][ (/\ Called("apply")
            /\ \E i \in DOMAIN config.modifications :
                  config.modifications[i].plan_id = approvals[last'.a].plan_id)
           => ~last'.ok /\ config' = config ]_vars

\* C26: every parameter of the configuration file is listed in the whitelist,
\* has the type listed for it and a value between its min and its max, after
\* any sequence of apply calls, failed ones included.
C26_ConfigurationStaysWhitelisted ==
    \A n \in DOMAIN config.parameters :
        /\ n \in DOMAIN ALLOWED_PARAMETERS
        /\ config.parameters[n].t = ALLOWED_PARAMETERS[n].type
        /\ ALLOWED_PARAMETERS[n].min <= config.parameters[n].v
        /\ config.parameters[n].v <= ALLOWED_PARAMETERS[n].max

\* apply has set ttl_medium to 4500 after an earlier apply of the same
\* approval had failed behind its backup
C26_Witness ==
    /\ last.op = "apply" /\ last.ok
    /\ config.parameters["ttl_medium"] = PyInt(4500)
    /\ Cardinality(DOMAIN backups) >= 2

\* the control signal type the mapping assigns to a risk signal
TypeFor(risk) ==
    IF risk.level = "high" /\ risk.attractor = "demo_only_mode" THEN "hard_limit"
    ELSE IF risk.level = "high" /\ risk.attractor = "supabase_down" THEN "soft_limit"
    ELSE IF risk.level = "high" /\ risk.attractor = "playwright_fail" THEN "mode_downgrade"
    ELSE IF risk.level = "medium" /\ risk.attractor = "api_score_drop" THEN "execution_guard"
    ELSE IF risk.level = "medium" /\ risk.attractor = "high_ui_fallback" THEN "soft_limit"
    ELSE IF risk.level = "medium" /\ risk.attractor = "runtime_spike" THEN "early_exit"
    ELSE "log_only"

\* C27: for one risk signal of any attractor and any level,
\* _generate_control_signals returns exactly one control signal, for the
\* attractor of the risk and of the type the mapping assigns (LOG_ONLY for
\* every pair of level and attractor the mapping does not name).
C27_OneControlSignalPerRisk ==
    [][ Called("_generate_control_signals") =>
          LET risk == last'.reason[1][1]
              signals == last'.reason[2]
          IN  /\ Len(signals) = 1
              /\ signals[1].attractor = risk.attractor
              /\ signals[1].signal_type = TypeFor(risk) ]_vars

\* the number of signal_expired decisions in a decision log
ExpiredLogged(log) == Cardinality({i \in DOMAIN log : log[i] = "signal_expired"})

\* C28: is_active() is true exactly while the signal is not revoked and
\* now <= expires_at. An evaluate_and_apply that returns keeps the signals that
\* are within their expires_at, in order and with their active flag, drops
\* every signal past its expires_at and logs one signal_expired decision for
\* each of them; what it appends are new active signals, one for each risk whose
\* pair has no active signal. No other operation changes the list's length, and
\* no step makes a revoked or expired signal active again.
C28_ExpiryIsLazyAndFinal ==
    /\ [](\A i \in DOMAIN active_signals :
            is_active(active_signals[i])
                = (active_signals[i].active /\ now <= active_signals[i].expires_at))
    /\ [][ Called("evaluate_and_apply") /\ last'.ok =>
             LET kept == SelectSeq(active_signals, LAMBDA s : now <= s.expires_at)
                 n == Len(kept)
             IN  /\ Len(active_signals') >= n
                 /\ \A j \in 1..n :
                       /\ active_signals'[j].signal_type = kept[j].signal_type
                       /\ active_signals'[j].attractor = kept[j].attractor
                       /\ active_signals'[j].active = kept[j].active
                       /\ (~kept[j].active => active_signals'[j] = kept[j])
                 /\ \A j \in (n + 1)..Len(active_signals') :
                       active_signals'[j].active /\ now < active_signals'[j].expires_at
                 /\ ExpiredLogged(decision_log')
                       = ExpiredLogged(decision_log) + (Len(active_signals) - n)
                 /\ \A i \in DOMAIN sentinel_signals' :
                       LET risk == sentinel_signals'[i] IN
                       ~HasActive(active_signals, TypeFor(risk), risk.attractor, now) =>
                           \E j \in (n + 1)..Len(active_signals') :
                               /\ active_signals'[j].signal_type = TypeFor(risk)
                               /\ active_signals'[j].attractor = risk.attractor ]_vars
    /\ [][ ~(Called("evaluate_and_apply") /\ last'.ok) =>
             /\ Len(active_signals') = Len(active_signals)
             /\ decision_log' = decision_log
             /\ \A i \in DOMAIN active_signals :
                   ~(active_signals[i].active /\ now <= active_signals[i].expires_at) =>
                       ~(active_signals'[i].active /\ now' <= active_signals'[i].expires_at) ]_vars

\* evaluate_and_apply has dropped an expired execution guard, logged its expiry
\* and activated a new guard for the same risk
C28_Witness ==
    /\ last.op = "evaluate_and_apply" /\ last.ok
    /\ decision_log = <<"signal_activated", "signal_activated", "signal_expired">>
    /\ Len(active_signals) = 1
    /\ active_signals[1].signal_type = "execution_guard"
    /\ active_signals[1].active
    /\ active_signals[1].expires_at = now + 1
    /\ now >= 2

\* C29: revoke() leaves a signal constructed with reversible = false as it is,
\* active included, and sets the active flag of a reversible signal to false;
\* the flag of a signal is never set back to true, and no operation other than
\* revoke changes the flag of a signal that stays in the controller's list.
C29_OnlyRevokeDeactivates ==
    [][ /\ (Called("revoke_signal") =>
              LET i == last'.reason[1] IN
              /\ active_signals' =
                    [active_signals EXCEPT ![i].active = @ /\ ~active_signals[i].reversible]
              /\ (~active_signals[i].reversible => active_signals' = active_signals)
              /\ (active_signals[i].reversible =>
                    /\ ~active_signals'[i].active
                    /\ ~(active_signals'[i].active /\ now' <= active_signals'[i].expires_at)))
        /\ (Called("evaluate_and_apply") /\ last'.ok =>
              LET kept == SelectSeq(active_signals, LAMBDA s : now <= s.expires_at) IN
              \A j \in 1..Len(kept) :
                  j <= Len(active_signals') /\ active_signals'[j].active = kept[j].active)
        /\ (~Called("revoke_signal") /\ ~(Called("evaluate_and_apply") /\ last'.ok) =>
              \A i \in DOMAIN active_signals :
                  i <= Len(active_signals')
                      /\ active_signals'[i].active = active_signals[i].active) ]_vars

\* revoke() was called on an active signal constructed with reversible = false,
\* beside a reversible signal that is revoked
C29_Witness ==
    /\ last.op = "revoke_signal"
    /\ ~active_signals[last.reason[1]].reversible
    /\ is_active(active_signals[last.reason[1]])
    /\ \E j \in DOMAIN active_signals :
          active_signals[j].reversible /\ ~active_signals[j].active

\* the metrics of the expected gain that actual_metrics holds, both as numbers
Measured(expected_gain, actual_metrics) ==
    {m \in DOMAIN expected_gain \cap DOMAIN actual_metrics :
        IsNumber(expected_gain[m]) /\ IsNumber(actual_metrics[m])}

\* the average over the measured metrics of (actual - expected) / expected in
\* percent, a shortfall counted with its sign
SignedAverage(expected_gain, actual_metrics) ==
    LET measured == Measured(expected_gain, actual_metrics)
        pct(m) == IF expected_gain[m].v # 0
                  THEN Frac((actual_metrics[m].v - expected_gain[m].v) * 100, expected_gain[m].v)
                  ELSE Zero
        total == FracSum(measured, [m \in measured |-> pct(m)])
    IN  Frac(total.n, total.d * Cardinality(measured))

\* C30: for a plan that passes verify_integrity and has a measured metric, the
\* status verify_execution returns follows the signed average percentage delta
\* between actual and expected value: 'success' above 5, 'partial' above 0,
\* 'no_effect' at 0 and 'negative' with rollback_recommended = true below 0.
C30_StatusFollowsSignedAverage ==
    [][ Called("verify_execution") /\ last'.ok /\ verification'.integrity_check =>
          LET expected_gain == verification'.expected_gain.d
              actual_metrics == verification'.actual_metrics
              avg == SignedAverage(expected_gain, actual_metrics)
          IN  Measured(expected_gain, actual_metrics) # {} =>
                /\ verification'.status =
                      IF FracLess(avg, Zero) THEN "negative"
                      ELSE IF FracLess(Frac(5, 1), avg) THEN "success"
                      ELSE IF FracLess(Zero, avg) THEN "partial"
                      ELSE "no_effect"
                /\ (FracLess(avg, Zero) => verification'.rollback_recommended) ]_vars

\* C31: verify_execution returns a verification record for the approval it was
\* called with, and raises nothing, whatever the plan's expected gain (the text
\* the planner writes included), the baselines and the execution metrics are.
C31_VerificationAlwaysReturns ==
    [][ Called("verify_execution") =>
          /\ last'.ok
          /\ verification'.present
          /\ verification'.plan_id = approvals[last'.a].plan_id
          /\ verification'.actual_metrics \in ExecutionMetrics ]_vars

\* C32: when process_cycle has returned for outcome success or partial success
\* (a baseline collector attached), a session of the baseline file, of which
\* get_baseline_summary computes its means, holds the post-change metrics of the
\* verification.
C32_EnrichmentReachesBaseline ==
    [][ (/\ Called("process_cycle") /\ last'.ok
         /\ last'.reason[1] \in {"success", "partial_success"})
        => LET post == feedbacks'[Len(feedbacks')].post_change_baseline IN
           /\ get_baseline_summary'.present
           /\ \E i \in DOMAIN baseline_file' :
                 \A k \in DOMAIN post : Get(baseline_file'[i], k, PyNone) = post[k] ]_vars

\* C33: save_session never raises; when it saves, the persisted history becomes
\* the old history followed by exactly the current session; and whatever happens
\* to the write, the snapshots persisted before the call are still there, as a
\* prefix of the history that can be read back after it.
C33_HistoryGrowsBySuffix ==
    [][ Called("save_session") =>
          /\ last'.ok
          /\ last'.saved => baseline_file' = Append(baseline_file, current_session)
          /\ Len(baseline_file') >= Len(baseline_file)
          /\ SubSeq(baseline_file', 1, Len(baseline_file)) = baseline_file ]_vars

\* C34: a call of generate_plans only appends to the plan registry: the plans
\* and registry entries there before are kept in place, the baseline history,
\* the controller's signals, ExecutionControls, the decision log, the approvals
\* with their records and the persisted configuration with its backups are as
\* before, and every plan the call added has scope PARAMETER, risk tier SAFE
\* and status 'proposed'.
C34_PlanningOnlyProposes ==
    [][ Called("generate_plans") =>
          /\ UNCHANGED <<baseline_file, baseline_readable, current_session, sentinel_signals,
                         active_signals, execution_controls, decision_log>>
          /\ UNCHANGED <<approvals, approved_plans, request_files, approval_files,
                         rejection_files, config, backups>>
          /\ Len(plans') >= Len(plans) /\ SubSeq(plans', 1, Len(plans)) = plans
          /\ Len(plan_registry') >= Len(plan_registry)
          /\ SubSeq(plan_registry', 1, Len(plan_registry)) = plan_registry
          /\ \A i \in (Len(plan_registry) + 1)..Len(plan_registry') :
                /\ plan_registry'[i] \in (Len(plans) + 1)..Len(plans')
                /\ plans'[plan_registry'[i]].scope = "parameter"
                /\ plans'[plan_registry'[i]].risk_level = "safe"
                /\ plans'[plan_registry'[i]].status = "proposed" ]_vars

\* generate_plans has registered a plan while a control signal was in force and
\* the decision log had entries
C34_Witness ==
    /\ last.op = "generate_plans"
    /\ plan_registry # <<>>
    /\ active_signals # <<>>
    /\ decision_log # <<>>
    /\ baseline_file # <<>>

\* the number of signal_activated entries of a decision log
Activations(log) == Cardinality({i \in DOMAIN log : log[i] = "signal_activated"})

\* the plans returned include the plan that retunes the signal TTLs
IncludesTtlPlan(proposed) ==
    \E i \in DOMAIN proposed : proposed[i].affected_parameters[1] = "signal_ttl_short"

\* C35: when a baseline exists, analyze_and_plan returns a TTL-retuning plan
\* exactly when the decision log it was handed has at least 3 signal_activated
\* entries.
C35_ThreeActivationsRetuneTtl ==
    [][ (Called("analyze_and_plan") /\ get_baseline_summary.present) =>
          /\ last'.ok
          /\ IncludesTtlPlan(last'.reason[2]) <=> Activations(last'.reason[1]) >= 3 ]_vars

\* ApprovalRegistry.get_by_plan_id finds an approval of the plan with this id
FoundByPlanId(registry, id) ==
    \E i \in DOMAIN registry : approvals[registry[i]].plan_id = id

\* C36: a registry created while approval files with status 'approved' exist
\* holds an approval for each of them, found by get_by_plan_id, and
\* get_valid_approvals returns those whose record is still within its TTL.
C36_RegistryRehydrates ==
    [][ Called("ApprovalRegistry") =>
          \A id \in DOMAIN approval_files :
             approval_files[id].status = "approved" =>
                /\ FoundByPlanId(approved_plans', id)
                /\ now < approval_files[id].expires_at =>
                      FoundByPlanId(get_valid_approvals', id) ]_vars

\* C37: an approval whose status is no longer 'approved' never has status
\* 'approved' again; an is_valid that returned false leaves such a status; and
\* is_valid and apply called on such an approval return false and failure, with
\* the configuration and the backups as before.
C37_ApprovalNeverRevalidated ==
    [][ /\ \A a \in DOMAIN approvals :
              approvals[a].status # "approved" =>
                 a \in DOMAIN approvals' /\ approvals'[a].status # "approved"
        /\ (Called("is_valid") /\ ~last'.ok) => approvals'[last'.a].status # "approved"
        /\ (/\ Called("is_valid") \/ Called("apply")
            /\ approvals[last'.a].status # "approved")
              => ~last'.ok /\ config' = config /\ backups' = backups ]_vars

\* an approval that was applied, and changed the configuration, has been
\* handed to apply again and was rejected
C37_Witness ==
    /\ last.op = "apply" /\ ~last.ok
    /\ approvals[last.a].status = "applied"
    /\ config # DefaultConfig
    /\ now > approvals[last.a].expires_at

\* the approval has status 'applied' after the step and had not before it
BecomesApplied(a) ==
    /\ approvals'[a].status = "applied"
    /\ a \in DOMAIN approvals => approvals[a].status # "applied"

\* C38: an approval becomes 'applied' only in an apply on it that returns
\* success; an apply that returns failure at any step leaves the status of an
\* approval that was not 'applied' other than 'applied' and adds no
\* modification record; an apply that returns success was called on an
\* approval with status 'approved', makes it 'applied' and adds exactly one
\* modification record, which has the approval's plan id.
C38_AppliedOnlyAfterWrite ==
    [][ /\ \A a \in DOMAIN approvals' :
              BecomesApplied(a) => Called("apply") /\ last'.ok /\ last'.a = a
        /\ (Called("apply") /\ ~last'.ok) =>
              /\ ~BecomesApplied(last'.a)
              /\ Len(config'.modifications) <= Len(config.modifications)
              /\ \A i \in DOMAIN config'.modifications :
                    config'.modifications[i] = config.modifications[i]
        /\ (Called("apply") /\ last'.ok) =>
              /\ approvals[last'.a].status = "approved"
              /\ approvals'[last'.a].status = "applied"
              /\ Len(config'.modifications) = Len(config.modifications) + 1
              /\ SubSeq(config'.modifications, 1, Len(config.modifications))
                    = config.modifications
              /\ config'.modifications[Len(config'.modifications)].plan_id
                    = approvals[last'.a].plan_id ]_vars

\* C38 as stated: after an apply that returned failure the approval's status
\* is not 'applied'.
C38_AsStated ==
    [][ (Called("apply") /\ ~last'.ok) => approvals'[last'.a].status # "applied" ]_vars

\* apply failed at the write of the configuration, after the backup was taken,
\* on an approval that is still 'approved'
C38_Witness ==
    /\ last.op = "apply" /\ ~last.ok
    /\ last.io = "write_fail" /\ last.reason = <<"exception">>
    /\ approvals[last.a].status = "approved"
    /\ backups # <<>>

\* C39: in the record a verify_execution returned, rollback_recommended is
\* true exactly when integrity_check is false, or the gain percentage of
\* gain_validation is below zero, or the drift_level of drift_detection is
\* 'critical'.
C39_RollbackFlagIsUnionOfFindings ==
    [][ (Called("verify_execution") /\ last'.ok) =>
          LET v == verification' IN
          v.rollback_recommended <=>
             \/ ~v.integrity_check
             \/ v.gain_validation.present /\ FracLess(v.gain_validation.gain_percentage, Zero)
             \/ v.drift_detection.present /\ v.drift_detection.drift_level = "critical" ]_vars

\* a verification found significant drift and no gain, and did not recommend
\* a rollback
C39_Witness ==
    /\ last.op = "verify_execution" /\ last.ok
    /\ verification.integrity_check
    /\ verification.drift_detection.drift_level = "significant"
    /\ verification.status = "no_effect"
    /\ ~verification.rollback_recommended

=============================================================================
